---- MODULE Spec2Model ----
(***************************************************************************)
(* A model of the nockchain wallet HTTP bridge: the signed-command layer   *)
(* (createSignedCommand, verifySignature, isAuthorizedKey,                 *)
(* isValidTimestamp, processSignedCommand) and the swap registry with its  *)
(* two handlers (POST /swap/initiate, GET /swap/status/:swap_id).          *)
(*                                                                         *)
(* Strings that carry JSON are modelled by what JSON.stringify writes: the *)
(* ordered sequence of the fields that are written.  Two such texts are    *)
(* byte-identical exactly when the sequences are equal.                    *)
(***************************************************************************)
EXTENDS Integers, Sequences, FiniteSets, TLC

VARIABLES
    now,        \* the wall clock, in seconds (Date.now() / 1000)
    authEnv,    \* process.env.AUTHORIZED_PUBLIC_KEYS when the module was loaded
    signed,     \* the last createSignedCommand call (server or client) and what it signed
    run,        \* the last processSignedCommand execution of POST /send
    tsCall,     \* the last direct call of isValidTimestamp
    authCall,   \* the last direct call of isAuthorizedKey
    call,       \* the last direct call of the command builder or the coin selector
    exec,       \* the last executeWalletCommand call, step by step, and the drafts directory
    swapTransactions,  \* the registry: swap_id -> the SwapTransaction object it holds
    heap,       \* the SwapTransaction objects created so far, by reference
    procs,      \* the swap handlers in flight, each at one of its awaits
    height,     \* the height of the chain the ledger RPC answers from
    chain       \* the transactions of each block, chain[h + 1] for height h

sendVars == <<now, authEnv, signed, run, tsCall, authCall, call, exec>>
swapVars == <<swapTransactions, heap, procs, height, chain>>
vars == <<now, authEnv, signed, run, tsCall, authCall, call, exec,
          swapTransactions, heap, procs, height, chain>>

(***************************************************************************)
(* Bounds of the model.                                                    *)
(***************************************************************************)
StartTime == 1000
MaxTicks == 2
MaxHeight == 3       \* the chain grows to this height

(***************************************************************************)
(* JSON values.  Every value has the same record shape.                    *)
(***************************************************************************)
\* An address is held by the three things isValidNockchainAddress looks at: its
\* length, whether all its characters are base58, and its decoded length.
Address(id, len, b58, dec) == [id |-> id, len |-> len, b58 |-> b58, dec |-> dec]
NoAddress == Address("", 0, FALSE, 0)
\* a recipient object none of whose properties is written ({})
NoRecipient ==
    [count |-> 0, whole |-> TRUE, address |-> NoAddress, hasCount |-> FALSE,
     hasAddress |-> FALSE]
Recipient(count, address) ==
    [count |-> count, whole |-> TRUE, address |-> address, hasCount |-> TRUE,
     hasAddress |-> TRUE]
\* a recipient whose count is the number count + 1/2
HalfCountRecipient(count, address) ==
    [count |-> count, whole |-> FALSE, address |-> address, hasCount |-> TRUE,
     hasAddress |-> TRUE]

\* a string value is held as its characters (cs); a number as n; the arrays of a
\* simple-spend as rs (recipients), gs (gifts) and ns (names)
PVal(kind, cs, n, rs, gs, ns) ==
    [kind |-> kind, cs |-> cs, n |-> n, rs |-> rs, gs |-> gs, ns |-> ns]
PStr(cs) == PVal("str", cs, 0, <<>>, <<>>, <<>>)
PNum(n) == PVal("num", <<>>, n, <<>>, <<>>, <<>>)
\* the number n + 1/2
PHalf(n) == PVal("half", <<>>, n, <<>>, <<>>, <<>>)
PRecipients(rs) == PVal("recipients", <<>>, 0, rs, <<>>, <<>>)
PGifts(gs) == PVal("gifts", <<>>, 0, <<>>, gs, <<>>)
PNames(ns) == PVal("names", <<>>, 0, <<>>, <<>>, ns)
PUndef == PVal("undef", <<>>, 0, <<>>, <<>>, <<>>)

PField(k, v) == [key |-> k, val |-> v]

TVal(kind, s, n, o) == [kind |-> kind, s |-> s, n |-> n, o |-> o]
TStr(s) == TVal("str", s, 0, <<>>)
TNum(n) == TVal("num", "", n, <<>>)
TObj(o) == TVal("obj", "", 0, o)
TUndef == TVal("undef", "", 0, <<>>)

TField(k, v) == [key |-> k, val |-> v]

\* obj[key] of a JavaScript object held as its fields in insertion order
HasKey(obj, key) == \E i \in 1..Len(obj) : obj[i].key = key
GetT(obj, key) ==
    IF HasKey(obj, key)
    THEN obj[CHOOSE i \in 1..Len(obj) : obj[i].key = key].val
    ELSE TUndef
GetP(obj, key) ==
    IF HasKey(obj, key)
    THEN obj[CHOOSE i \in 1..Len(obj) : obj[i].key = key].val
    ELSE PUndef

\* obj[key] = v : an existing key keeps its place, a new key goes last
SetT(obj, key, v) ==
    IF HasKey(obj, key)
    THEN [i \in 1..Len(obj) |-> IF obj[i].key = key THEN TField(key, v) ELSE obj[i]]
    ELSE Append(obj, TField(key, v))

\* the key names of the model in lexicographic order (Array.prototype.sort)
KeyOrder ==
    <<"action", "amountNock", "fee", "gifts", "names", "nonce", "params",
      "pubkey", "recipients", "timestamp">>
ObjectKeys(obj) == [i \in 1..Len(obj) |-> obj[i].key]
SortKeys(keys) ==
    SelectSeq(KeyOrder, LAMBDA k : \E i \in 1..Len(keys) : keys[i] = k)

(***************************************************************************)
(* Texts: the strings that travel as msg.                                  *)
(***************************************************************************)
Text(kind, fields) == [kind |-> kind, fields |-> fields]
EmptyText == Text("empty", <<>>)          \* ''
NotJsonText == Text("not-json", <<>>)     \* a string JSON.parse rejects
NullText == Text("null", <<>>)            \* 'null'

\* JSON.stringify(value): own fields in insertion order, undefined ones skipped
JSONstringify(obj) ==
    Text("object", SelectSeq(obj, LAMBDA f : f.val.kind # "undef"))

\* JSON.stringify(value, replacerArray): the array is an allow-list of property
\* names, applied to the value and to every object nested in it, and it fixes
\* the order in which the properties are written
FilterNested(o, allow) ==
    LET keep == SelectSeq(allow, LAMBDA k : HasKey(o, k) /\ GetP(o, k).kind # "undef")
    IN  [i \in 1..Len(keep) |->
            LET v == GetP(o, keep[i])
            IN  PField(keep[i],
                   IF v.kind = "recipients"
                   THEN PRecipients([j \in 1..Len(v.rs) |-> NoRecipient])
                   ELSE v)]
JSONstringifyReplacer(obj, allow) ==
    LET keep == SelectSeq(allow, LAMBDA k : HasKey(obj, k) /\ GetT(obj, k).kind # "undef")
    IN  Text("object",
            [i \in 1..Len(keep) |->
                LET v == GetT(obj, keep[i])
                IN  TField(keep[i],
                       IF v.kind = "obj" THEN TObj(FilterNested(v.o, allow)) ELSE v)])

\* JSON.parse(text): the object, null, or a SyntaxError
JSONparse(text) ==
    CASE text.kind = "object" -> [threw |-> FALSE, null |-> FALSE, obj |-> text.fields]
      [] text.kind = "null"   -> [threw |-> FALSE, null |-> TRUE, obj |-> <<>>]
      [] OTHER                -> [threw |-> TRUE, null |-> FALSE, obj |-> <<>>]

(***************************************************************************)
(* Ed25519 and base58.  A key is named by its holder; a signature is held  *)
(* by the key that made it and the bytes it was made over, so that         *)
(* verification succeeds exactly for that key and those bytes.             *)
(***************************************************************************)
Keys == {"A", "B", "S"}      \* A, B: callers' keys;  S: the server's signing key file
PubOf(k) == CASE k = "A" -> "pkA" [] k = "B" -> "pkB" [] k = "S" -> "pkS" [] OTHER -> ""

\* publicKey strings: base58 of 32 bytes, base58 of another length, not base58, ''
PubKind(pk) ==
    CASE pk \in {"pkA", "pkB", "pkS"} -> "key32"
      [] pk = "pkShort"               -> "badlen"
      [] pk = ""                      -> "empty"
      [] OTHER                        -> "notb58"

Sig(kind, key, over) == [kind |-> kind, key |-> key, over |-> over]
EmptySig == Sig("empty", "", EmptyText)          \* ''
NotB58Sig == Sig("notb58", "", EmptyText)        \* has a character outside base58
ShortSig == Sig("badlen", "", EmptyText)         \* base58 of fewer than 64 bytes

\* bs58.encode(nacl.sign(msgBytes, secretKey).slice(0, 64))
NaclSignDetached(bytes, key) == Sig("sig64", key, bytes)

Request(msg, sig, publicKey) == [msg |-> msg, sig |-> sig, publicKey |-> publicKey]
NoRequest == Request(EmptyText, EmptySig, "")

\* bs58.decode throws on a character outside the alphabet; nacl.sign.detached.verify
\* throws on a signature that is not 64 bytes or a key that is not 32 bytes
VerifyThrows(sig, publicKey) ==
    \/ sig.kind = "notb58"
    \/ PubKind(publicKey) = "notb58"
    \/ sig.kind # "sig64"
    \/ PubKind(publicKey) # "key32"

verifySignatureNoBytes(msg, sig, publicKey) ==
    IF VerifyThrows(sig, publicKey) THEN FALSE
    ELSE PubOf(sig.key) = publicKey

verifySignature(msg, sig, publicKey) ==
    IF VerifyThrows(sig, publicKey) THEN FALSE
    ELSE PubOf(sig.key) = publicKey /\ sig.over = msg

(***************************************************************************)
(* The authorized-key list.                                                *)
(***************************************************************************)
\* The setting is held as its characters, a key string counting as one
\* character and "," as the separator.
EnvUnset == [set |-> FALSE, chars |-> <<>>]
EnvValue(chars) == [set |-> TRUE, chars |-> chars]

RECURSIVE SplitComma(_)
SplitComma(chars) ==
    IF \A i \in 1..Len(chars) : chars[i] # ","
    THEN <<chars>>
    ELSE LET i == CHOOSE j \in 1..Len(chars) :
                     chars[j] = "," /\ \A k \in 1..(j - 1) : chars[k] # ","
         IN  <<SubSeq(chars, 1, i - 1)>> \o SplitComma(SubSeq(chars, i + 1, Len(chars)))

\* process.env.AUTHORIZED_PUBLIC_KEYS?.split(',') || []
AUTHORIZED_PUBLIC_KEYS(env) == IF env.set THEN SplitComma(env.chars) ELSE <<>>

StringChars(str) == IF str = "" THEN <<>> ELSE <<str>>

isAuthorizedKey(keys, publicKey) ==
    IF Len(keys) = 0 THEN TRUE
    ELSE \E i \in 1..Len(keys) : keys[i] = StringChars(publicKey)

(***************************************************************************)
(* Freshness.                                                              *)
(***************************************************************************)
DefaultWindowMinutes == 5
SecondsPerMinute == 60

Abs(x) == IF x < 0 THEN -x ELSE x

isValidTimestampPastOnly(timestamp, windowMinutes, t) ==
    t - timestamp <= windowMinutes * SecondsPerMinute

isValidTimestampStrict(timestamp, windowMinutes, t) ==
    Abs(t - timestamp) < windowMinutes * SecondsPerMinute

isValidTimestamp(timestamp, windowMinutes, t) ==
    LET maxAge == windowMinutes * SecondsPerMinute
    IN  Abs(t - timestamp) <= maxAge

(***************************************************************************)
(* Sanitizing and address validation.                                      *)
(***************************************************************************)
MaxSanitizedLength == 100

DangerousChars == {";", "|", "&", "$", "`", "\\", "'", "\""}
WhitespaceChars == {" ", "\t", "\n"}

Min(a, b) == IF a < b THEN a ELSE b

\* .replace(/\s+/g, ' ') : every run of whitespace becomes one space
CollapseWhitespace(cs) ==
    LET keep == {i \in 1..Len(cs) :
                    ~(cs[i] \in WhitespaceChars /\ i > 1 /\ cs[i - 1] \in WhitespaceChars)}
        idx == SelectSeq([i \in 1..Len(cs) |-> i], LAMBDA i : i \in keep)
    IN  [j \in 1..Len(idx) |->
            IF cs[idx[j]] \in WhitespaceChars THEN " " ELSE cs[idx[j]]]

\* .trim()
Trim(cs) ==
    LET inner == {i \in 1..Len(cs) : cs[i] \notin WhitespaceChars}
    IN  IF inner = {} THEN <<>>
        ELSE LET lo == CHOOSE i \in inner : \A j \in inner : i <= j
                 hi == CHOOSE i \in inner : \A j \in inner : i >= j
             IN  SubSeq(cs, lo, hi)

sanitizeForBash(input) ==
    LET stripped == SelectSeq(input, LAMBDA c : c \notin DangerousChars)
        trimmed == Trim(CollapseWhitespace(stripped))
    IN  SubSeq(trimmed, 1, Min(MaxSanitizedLength, Len(trimmed)))

MinAddressLength == 150
MaxAddressLength == 156
MinDecodedLength == 110
MaxDecodedLength == 115

isValidNockchainAddress(address) ==
    /\ address.len >= MinAddressLength /\ address.len <= MaxAddressLength
    /\ address.b58
    /\ address.dec >= MinDecodedLength /\ address.dec <= MaxDecodedLength

(***************************************************************************)
(* Signing.                                                                *)
(***************************************************************************)
SigningKeyLength == 32

\* loadSigningKey: the file must hold 32 bytes; reading the file and
\* nacl.sign.keyPair.fromSecretKey are library calls, which return or throw
loadSigningKey(fileLength, libraryReturns) ==
    IF fileLength # SigningKeyLength THEN [threw |-> TRUE, key |-> ""]
    ELSE IF ~libraryReturns THEN [threw |-> TRUE, key |-> ""]
    ELSE [threw |-> FALSE, key |-> "S"]

SignedCommand(action, params, timestamp, nonce) ==
    <<TField("action", action), TField("params", params),
      TField("timestamp", timestamp), TField("nonce", nonce)>>

NoSigned ==
    [by |-> "none", threw |-> FALSE, envelope |-> <<>>, bytes |-> EmptyText,
     req |-> NoRequest, keyLength |-> 0]

\* the text the signature is made over
SignedBytes(signedCommand) ==
    JSONstringifyReplacer(signedCommand, SortKeys(ObjectKeys(signedCommand)))

MakeSigned(by, signedCommand, key) ==
    LET msgBytes == SignedBytes(signedCommand)
    IN  [by |-> by, threw |-> FALSE, envelope |-> signedCommand, bytes |-> msgBytes,
         req |-> Request(JSONstringify(signedCommand),
                         NaclSignDetached(msgBytes, key), PubOf(key)),
         keyLength |-> SigningKeyLength]

\* the server's createSignedCommand(action, params, keyPath)
createSignedCommand(action, params, t, nonce, fileLength, libraryReturns) ==
    LET signedCommand ==
            SignedCommand(action, IF params.kind = "undef" THEN TObj(<<>>) ELSE params,
                          TNum(t), TStr(nonce))
        keyPair == loadSigningKey(fileLength, libraryReturns)
    IN  IF keyPair.threw
        THEN [by |-> "server", threw |-> TRUE, envelope |-> signedCommand,
              bytes |-> EmptyText, req |-> NoRequest, keyLength |-> fileLength]
        ELSE MakeSigned("server", signedCommand, keyPair.key)

\* NockchainClient.createSignedCommand(action, params), with the client's key pair
ClientCreateSignedCommand(action, params, t, nonce, key) ==
    MakeSigned("client", SignedCommand(action, params, TNum(t), TStr(nonce)), key)

(***************************************************************************)
(* Notes and coin selection.                                               *)
(***************************************************************************)
AssetsPerNock == 65536
SelectionOverhead == 10

\* A JavaScript number: NaN (finite FALSE), the integer n, or n + 1/2.
Num(finite, whole, n) == [finite |-> finite, whole |-> whole, n |-> n]
NaN == Num(FALSE, FALSE, 0)
Whole(n) == Num(TRUE, TRUE, n)
Half(n) == Num(TRUE, FALSE, n)

Digits == <<"0", "1", "2", "3", "4", "5", "6", "7", "8", "9">>
DigitValue(c) == (CHOOSE i \in 1..Len(Digits) : Digits[i] = c) - 1

RECURSIVE DecimalValue(_)
DecimalValue(cs) ==
    IF Len(cs) = 0 THEN 0
    ELSE (DecimalValue(SubSeq(cs, 1, Len(cs) - 1)) * 10) + DigitValue(cs[Len(cs)])

\* Number(string): white space around the text is dropped, the empty text
\* is 0, a text of digits is its value.  (Signs, fractions and exponents are
\* not among the strings of the model.)
NumberOfString(cs) ==
    IF \A i \in 1..Len(Trim(cs)) : \E d \in 1..Len(Digits) : Digits[d] = Trim(cs)[i]
    THEN Whole(DecimalValue(Trim(cs)))
    ELSE NaN

\* Number(value): an array is converted through its text, so [] is 0 and
\* [x] is Number(x)
Number(v) ==
    IF v.kind = "num" THEN Whole(v.n)
    ELSE IF v.kind = "half" THEN Half(v.n)
    ELSE IF v.kind = "str" THEN NumberOfString(v.cs)
    ELSE IF v.kind = "gifts"
    THEN IF Len(v.gs) = 0 THEN Whole(0)
         ELSE IF Len(v.gs) = 1 THEN Whole(v.gs[1]) ELSE NaN
    ELSE NaN

NumberIsInteger(x) == x.finite /\ x.whole
\* x < n and x > n for an integer n; both are false of NaN
NumLess(x, n) == x.finite /\ x.n < n
NumAtLeast(x, n) == x.finite /\ x.n >= n
NumGreater(x, n) == x.finite /\ (x.n > n \/ (x.n = n /\ ~x.whole))

\* amount * 65536 for a number that is not NaN
NockAssets(x) == (x.n * AssetsPerNock) + (IF x.whole THEN 0 ELSE AssetsPerNock \div 2)

ParsedNote(first, last, assets) ==
    [first_name |-> first, last_name |-> last, assets |-> assets]

\* One block of the wallet's listing: whether the name marker and the assets
\* marker are recognized, and what they hold.
NoteBlock(hasName, first, last, hasAssets, assets) ==
    [hasName |-> hasName, first |-> first, last |-> last,
     hasAssets |-> hasAssets, assets |-> assets]

parseNotesOutput(output) ==
    LET kept == SelectSeq(output, LAMBDA b : b.hasName /\ b.hasAssets)
    IN  [i \in 1..Len(kept) |-> ParsedNote(kept[i].first, kept[i].last, kept[i].assets)]

\* The same block as text: what follows the assets marker is a text, of which
\* the pattern takes the digits and dots at its head.
TextBlock(hasName, first, last, hasAssets, assetsText) ==
    [hasName |-> hasName, first |-> first, last |-> last,
     hasAssets |-> hasAssets, assetsText |-> assetsText]

IsDigit(c) == \E d \in 1..Len(Digits) : Digits[d] = c

\* ([\d.]+) : the longest run of digits and dots at the head of the text
AssetsMatch(text) ==
    LET stop == {i \in 1..Len(text) : ~(IsDigit(text[i]) \/ text[i] = ".")}
        n == IF stop = {} THEN Len(text)
             ELSE (CHOOSE i \in stop : \A j \in stop : i <= j) - 1
    IN  SubSeq(text, 1, n)

\* parseFloat(assetStr.replace(/\./g, ''))
parseAssetAmount(assetStr) ==
    LET digits == SelectSeq(assetStr, LAMBDA c : c # ".")
    IN  IF digits = <<>> THEN NaN ELSE Whole(DecimalValue(digits))

\* the part of a block parseNotesOutput fills in: note.assets stays undefined
\* when the pattern does not match
NoteOfBlock(b) ==
    [hasName |-> b.hasName /\ b.first # <<>> /\ b.last # <<>>,
     first_name |-> b.first, last_name |-> b.last,
     hasAssets |-> b.hasAssets /\ AssetsMatch(b.assetsText) # <<>>,
     assets |-> parseAssetAmount(AssetsMatch(b.assetsText))]

\* parseNotesOutput on the blocks as text
parseNoteBlocks(blocks) ==
    LET notes == [i \in 1..Len(blocks) |-> NoteOfBlock(blocks[i])]
        kept == SelectSeq(notes, LAMBDA n : n.hasName /\ n.hasAssets)
    IN  [i \in 1..Len(kept) |->
            ParsedNote(kept[i].first_name, kept[i].last_name, kept[i].assets)]

RECURSIVE SumAssets(_)
SumAssets(notes) ==
    IF Len(notes) = 0 THEN 0 ELSE notes[1].assets + SumAssets(Tail(notes))

\* availableNotes.sort((a, b) => b.assets - a.assets): stable, descending
RECURSIVE SortDescending(_)
SortDescending(notes) ==
    IF Len(notes) <= 1 THEN notes
    ELSE LET rest == SortDescending(Tail(notes))
             x == notes[1]
             before == SelectSeq(rest, LAMBDA y : y.assets > x.assets)
             after == SelectSeq(rest, LAMBDA y : y.assets <= x.assets)
         IN  before \o <<x>> \o after

ErrBalance == "Insufficient balance"

\* the selection loop stopping at the first note, whatever it holds
getNotesEqualToFirstNote(amountNock, availableNotes) ==
    LET sorted == SortDescending(availableNotes)
        selectedNotes == SubSeq(sorted, 1, Min(1, Len(sorted)))
    IN  [threw |-> FALSE, error |-> "",
         selectedNotes |-> selectedNotes, totalAssets |-> SumAssets(selectedNotes)]

\* the selection loop over the notes in the order of the listing
getNotesEqualToUnsorted(amountNock, availableNotes) ==
    LET requiredAssets == NockAssets(amountNock) + SelectionOverhead
        enough == {k \in 1..Len(availableNotes) :
                      SumAssets(SubSeq(availableNotes, 1, k)) >= requiredAssets}
        taken == IF enough = {} THEN Len(availableNotes)
                 ELSE CHOOSE k \in enough : \A j \in enough : k <= j
        selectedNotes == SubSeq(availableNotes, 1, taken)
        totalAssets == SumAssets(selectedNotes)
    IN  [threw |-> totalAssets < requiredAssets,
         error |-> IF totalAssets < requiredAssets THEN ErrBalance ELSE "",
         selectedNotes |-> selectedNotes, totalAssets |-> totalAssets]

\* amountNock is a number (Whole or Half)
getNotesEqualTo(amountNock, availableNotes) ==
    LET requiredAssets == NockAssets(amountNock) + SelectionOverhead
        sorted == SortDescending(availableNotes)
        enough == {k \in 1..Len(sorted) : SumAssets(SubSeq(sorted, 1, k)) >= requiredAssets}
        taken == IF enough = {} THEN Len(sorted)
                 ELSE CHOOSE k \in enough : \A j \in enough : k <= j
        selectedNotes == SubSeq(sorted, 1, taken)
        totalAssets == SumAssets(selectedNotes)
    IN  [threw |-> totalAssets < requiredAssets,
         error |-> IF totalAssets < requiredAssets THEN ErrBalance ELSE "",
         selectedNotes |-> selectedNotes, totalAssets |-> totalAssets]

RECURSIVE GiftsFrom(_, _, _)
GiftsFrom(selectedNotes, i, remainingToSpend) ==
    IF i > Len(selectedNotes) THEN <<>>
    ELSE IF i = Len(selectedNotes) THEN <<remainingToSpend>>
    ELSE IF selectedNotes[i].assets <= remainingToSpend
    THEN <<selectedNotes[i].assets>>
         \o GiftsFrom(selectedNotes, i + 1, remainingToSpend - selectedNotes[i].assets)
    ELSE <<remainingToSpend>> \o GiftsFrom(selectedNotes, i + 1, 0)

\* gifts for the amount alone
buildGiftsArrayWithoutFee(selectedNotes, amountNock, fee) ==
    GiftsFrom(selectedNotes, 1, NockAssets(amountNock))

buildGiftsArray(selectedNotes, amountNock, fee) ==
    GiftsFrom(selectedNotes, 1, NockAssets(amountNock) + (fee * AssetsPerNock))

(***************************************************************************)
(* simple-spend validation and the command line.                           *)
(***************************************************************************)
MaxRecipients == 50
MinCount == 1
MaxCount == 999
MinFee == 1
MaxFee == 1000

Invalid(error, invoked) ==
    [ok |-> FALSE, error |-> error, invoked |-> invoked, recipients |-> <<>>,
     gifts |-> <<>>, names |-> <<>>, fee |-> 0, selectedNotes |-> <<>>]
Validated(recipients, gifts, names, fee, invoked) ==
    [ok |-> TRUE, error |-> "", invoked |-> invoked, recipients |-> recipients,
     gifts |-> gifts, names |-> names, fee |-> fee, selectedNotes |-> <<>>]

RecipientValid(r) ==
    /\ r.hasCount /\ r.whole /\ r.count >= MinCount /\ r.count <= MaxCount
    /\ r.hasAddress /\ isValidNockchainAddress(r.address)

\* the amountNock path once the notes are selected
ValidatedSelection(recipients, sel, amountNum, feeNum, invoked) ==
    IF sel.threw THEN Invalid(sel.error, invoked)
    ELSE [Validated(recipients,
             buildGiftsArray(sel.selectedNotes, amountNum, feeNum),
             [i \in 1..Len(sel.selectedNotes) |->
                 <<sel.selectedNotes[i].first_name, sel.selectedNotes[i].last_name>>],
             feeNum, invoked)
          EXCEPT !.selectedNotes = sel.selectedNotes]

\* notesCall: what getAllNotes() does when validation asks for the wallet's
\* notes: [threw, notes, invoked]
validateSimpleSpendParamsWithUTXOs(params, notesCall) ==
    IF params.kind # "obj" THEN Invalid("Invalid params: must be an object", FALSE)
    ELSE
    LET recipients == GetP(params.o, "recipients")
        gifts == GetP(params.o, "gifts")
        names == GetP(params.o, "names")
        fee == GetP(params.o, "fee")
        amountNock == GetP(params.o, "amountNock")
    IN  IF recipients.kind # "recipients" \/ Len(recipients.rs) = 0
        THEN Invalid("Invalid recipients: must be non-empty array", FALSE)
        ELSE IF Len(recipients.rs) > MaxRecipients
        THEN Invalid("Too many recipients: maximum 50 allowed", FALSE)
        ELSE IF \E i \in 1..Len(recipients.rs) : ~RecipientValid(recipients.rs[i])
        THEN Invalid("Invalid count or address at recipient", FALSE)
        ELSE IF \/ ~NumberIsInteger(Number(fee))
                \/ NumLess(Number(fee), MinFee) \/ NumGreater(Number(fee), MaxFee)
        THEN Invalid("Invalid fee: must be integer between 1-1000", FALSE)
        ELSE IF amountNock.kind # "undef"
        THEN IF ~Number(amountNock).finite \/ ~NumGreater(Number(amountNock), 0)
             THEN Invalid("Invalid amountNock: must be positive number", FALSE)
             ELSE IF notesCall.threw
             THEN Invalid("Failed to get notes", notesCall.invoked)
             ELSE ValidatedSelection(recipients.rs,
                      getNotesEqualTo(Number(amountNock), notesCall.notes),
                      Number(amountNock), Number(fee).n, notesCall.invoked)
        ELSE IF gifts.kind # "gifts" \/ Len(gifts.gs) = 0
        THEN Invalid("Invalid gifts: must be non-empty array when amountNock not provided", FALSE)
        ELSE IF \E i \in 1..Len(gifts.gs) : gifts.gs[i] <= 0
        THEN Invalid("Invalid gift: must be positive number", FALSE)
        ELSE IF names.kind # "names"
        THEN Invalid("Invalid names: must be array when amountNock not provided", FALSE)
        ELSE IF \E i \in 1..Len(names.ns) : \E j \in 1..Len(names.ns[i]) :
                    sanitizeForBash(names.ns[i][j]) = <<>>
        THEN Invalid("Invalid name: cannot be empty after sanitization", FALSE)
        ELSE Validated(recipients.rs, gifts.gs,
                 [i \in 1..Len(names.ns) |->
                     [j \in 1..Len(names.ns[i]) |-> sanitizeForBash(names.ns[i][j])]],
                 Number(fee).n, FALSE)

\* the validator of the earlier copy of the module: explicit gifts only
MaxGift == 1000000000

validateSimpleSpendParams(params) ==
    IF params.kind # "obj" THEN Invalid("Invalid params: must be an object", FALSE)
    ELSE
    LET recipients == GetP(params.o, "recipients")
        gifts == GetP(params.o, "gifts")
        names == GetP(params.o, "names")
        fee == GetP(params.o, "fee")
    IN  IF recipients.kind # "recipients" \/ Len(recipients.rs) = 0
        THEN Invalid("Invalid recipients: must be non-empty array", FALSE)
        ELSE IF Len(recipients.rs) > MaxRecipients
        THEN Invalid("Too many recipients: maximum 50 allowed", FALSE)
        ELSE IF \E i \in 1..Len(recipients.rs) : ~RecipientValid(recipients.rs[i])
        THEN Invalid("Invalid count or address at recipient", FALSE)
        ELSE IF gifts.kind # "gifts" \/ Len(gifts.gs) = 0
        THEN Invalid("Invalid gifts: must be non-empty array", FALSE)
        ELSE IF Len(gifts.gs) # Len(recipients.rs)
        THEN Invalid("Gifts array length must match recipients length", FALSE)
        ELSE IF \E i \in 1..Len(gifts.gs) : gifts.gs[i] <= 0
        THEN Invalid("Invalid gift: must be positive number", FALSE)
        ELSE IF \E i \in 1..Len(gifts.gs) : gifts.gs[i] > MaxGift
        THEN Invalid("Gift amount too large: maximum 1 billion", FALSE)
        ELSE IF names.kind # "names"
        THEN Invalid("Invalid names: must be array", FALSE)
        ELSE IF \E i \in 1..Len(names.ns) : \E j \in 1..Len(names.ns[i]) :
                    sanitizeForBash(names.ns[i][j]) = <<>>
        THEN Invalid("Invalid name: cannot be empty after sanitization", FALSE)
        ELSE IF \/ ~NumberIsInteger(Number(fee))
                \/ NumLess(Number(fee), MinFee) \/ NumGreater(Number(fee), MaxFee)
        THEN Invalid("Invalid fee: must be integer between 1-1000", FALSE)
        ELSE Validated(recipients.rs, gifts.gs,
                 [i \in 1..Len(names.ns) |->
                     [j \in 1..Len(names.ns[i]) |-> sanitizeForBash(names.ns[i][j])]],
                 Number(fee).n, FALSE)

\* The command line, held by the parts that vary.
Command(tool, names, recipients, gifts, fee, pubkey) ==
    [tool |-> tool, names |-> names, recipients |-> recipients, gifts |-> gifts,
     fee |-> fee, pubkey |-> pubkey]
NoCommand == Command("", <<>>, <<>>, <<>>, 0, <<>>)

buildSimpleSpendCommand(validated) ==
    Command("simple-spend", validated.names, validated.recipients, validated.gifts,
            validated.fee, <<>>)

Built(cmd, invoked) == [ok |-> TRUE, error |-> "", cmd |-> cmd, invoked |-> invoked]
NotBuilt(error, invoked) ==
    [ok |-> FALSE, error |-> error, cmd |-> NoCommand, invoked |-> invoked]

BuiltFrom(validated) ==
    IF validated.ok
    THEN Built(buildSimpleSpendCommand(validated), validated.invoked)
    ELSE NotBuilt(validated.error, validated.invoked)

parseAndBuildCommand(signedCommand, notesCall) ==
    LET action == GetT(signedCommand, "action")
        params == GetT(signedCommand, "params")
    IN  IF action.kind = "str" /\ action.s = "simple-spend"
        THEN BuiltFrom(validateSimpleSpendParamsWithUTXOs(params, notesCall))
        ELSE IF action.kind = "str" /\ action.s = "list-notes"
        THEN Built(Command("list-notes", <<>>, <<>>, <<>>, 0, <<>>), FALSE)
        ELSE IF action.kind = "str" /\ action.s = "list-notes-by-pubkey"
        THEN IF params.kind # "obj"
             THEN NotBuilt("Cannot read properties of undefined (reading 'pubkey')", FALSE)
             ELSE LET pubkey == GetP(params.o, "pubkey")
                  IN  IF pubkey.kind = "undef" \/ (pubkey.kind = "str" /\ pubkey.cs = <<>>)
                         \/ (pubkey.kind = "num" /\ pubkey.n = 0)
                      THEN NotBuilt("list-notes-by-pubkey requires pubkey parameter", FALSE)
                      ELSE Built(Command("list-notes-by-pubkey", <<>>, <<>>, <<>>, 0,
                                   IF pubkey.kind = "str" THEN sanitizeForBash(pubkey.cs)
                                   ELSE <<>>), FALSE)
        ELSE NotBuilt("Unknown action", FALSE)

(***************************************************************************)
(* The executor, as far as the signed-command layer sees it: whether the   *)
(* external tool was started, and whether the execution threw.             *)
(***************************************************************************)
ExecOutcomes ==
    {"ok", "exec-fails", "mkdir-throws", "no-draft-name", "sign-fails", "send-fails"}

Stdout(empty, blocks) == [empty |-> empty, blocks |-> blocks]
NoStdout == Stdout(TRUE, <<>>)

SimpleSpendWord == <<"s", "i", "m", "p", "l", "e", "-", "s", "p", "e", "n", "d">>
HasSubSeq(cs, pat) ==
    \E i \in 1..(Len(cs) - Len(pat) + 1) : SubSeq(cs, i, i + Len(pat) - 1) = pat

\* command.includes('simple-spend')
IncludesSimpleSpend(cmd) ==
    cmd.tool = "simple-spend" \/ HasSubSeq(cmd.pubkey, SimpleSpendWord)

Executed(threw, error, invoked, output) ==
    [threw |-> threw, error |-> error, invoked |-> invoked, output |-> output]

executeWalletCommand(cmd, outcome, stdout) ==
    IF IncludesSimpleSpend(cmd)
    THEN CASE outcome = "mkdir-throws" ->
                 Executed(TRUE, "Transaction execution failed", FALSE, NoStdout)
           [] outcome = "ok" -> Executed(FALSE, "", TRUE, stdout)
           [] OTHER -> Executed(TRUE, "Transaction execution failed", TRUE, NoStdout)
    ELSE IF outcome = "exec-fails"
         THEN Executed(TRUE, "Command execution failed", TRUE, NoStdout)
         ELSE Executed(FALSE, "", TRUE, stdout)

(***************************************************************************)
(* The executor step by step: every await of executeWalletCommand and of   *)
(* executeCompleteTransaction is a step, and the drafts directory is the   *)
(* set of the draft files in it.  The draft of the n-th execution is n.    *)
(***************************************************************************)
ErrTransaction == "Transaction execution failed"
ErrCommand == "Command execution failed"

\* what the simple-spend invocation can do: write the draft and print its
\* name, write it and print nothing the pattern matches, fail, fail with the
\* draft already written, or exit cleanly with no draft at all
DraftOutcomes == {"named", "unnamed", "fails", "fails-written", "nothing"}

NoExec ==
    [pc |-> "idle", runs |-> 0, cmd |-> NoCommand, files |-> {}, draftPath |-> 0,
     log |-> <<>>, pending |-> FALSE, threw |-> FALSE, error |-> ""]

Step(step, ok, draft) == [step |-> step, ok |-> ok, draft |-> draft]
Logged(e, step, ok, draft) == [e EXCEPT !.log = Append(@, Step(step, ok, draft))]

\* the outer catch: throw new Error(`Transaction execution failed: ...`)
Thrown(e) == [e EXCEPT !.pc = "done", !.threw = TRUE, !.error = ErrTransaction]
Returned(e) == [e EXCEPT !.pc = "done"]

\* executeWalletCommand up to its first await
Begin(e, cmd) ==
    [NoExec EXCEPT !.runs = e.runs + 1, !.files = e.files, !.cmd = cmd,
                   !.pc = IF IncludesSimpleSpend(cmd) THEN "mkdir" ELSE "single"]

\* the single invocation of a command that is not a spend
AfterSingle(e, ok) ==
    IF ok THEN Returned(Logged(e, "exec", TRUE, 0))
    ELSE [Logged(e, "exec", FALSE, 0) EXCEPT !.pc = "done", !.threw = TRUE,
                                             !.error = ErrCommand]

AfterMkdir(e, ok) ==
    IF ok THEN [Logged(e, "mkdir", TRUE, 0) EXCEPT !.pc = "draft"]
    ELSE Thrown(Logged(e, "mkdir", FALSE, 0))

\* the draft the invocation leaves in the directory
Written(e, outcome) ==
    IF outcome \in {"named", "unnamed", "fails-written"} /\ e.cmd.tool = "simple-spend"
    THEN e.files \cup {e.runs}
    ELSE e.files

\* step 1 and the search for the draft's name in its output
AfterDraft(e, outcome) ==
    LET f == [e EXCEPT !.files = Written(e, outcome)]
    IN  CASE outcome \in {"fails", "fails-written"} -> Thrown(Logged(f, "draft", FALSE, 0))
          [] outcome \in {"unnamed", "nothing"} -> Thrown(Logged(f, "draft", TRUE, 0))
          [] OTHER -> [Logged(f, "draft", TRUE, e.runs) EXCEPT !.draftPath = e.runs,
                                                               !.pc = "sign"]

\* sign-tx followed by send-tx whatever it did
SignThenSend(ok) == "send"

\* a sign-tx that throws leaves the try block
SignThen(ok) == IF ok THEN "send" ELSE "unlink"

AfterSign(e, ok) ==
    [Logged(e, "sign", ok, e.draftPath) EXCEPT !.pc = SignThen(ok), !.pending = ~ok]

AfterSend(e, ok) ==
    [Logged(e, "send", ok, e.draftPath) EXCEPT !.pc = "unlink", !.pending = @ \/ ~ok]

\* the finally block, then the return or the outer catch
AfterUnlink(e, ok) ==
    LET f == [Logged(e, "unlink", ok, e.draftPath) EXCEPT
                 !.files = IF ok THEN @ \ {e.draftPath} ELSE @]
    IN  IF e.pending THEN Thrown(f) ELSE Returned(f)

(***************************************************************************)
(* processSignedCommand.                                                   *)
(***************************************************************************)
ErrMissing == "Missing required fields: msg, sig, publicKey"
ErrSignature == "Invalid signature"
ErrUnauthorized == "Unauthorized public key"
ErrFormat == "Invalid command format - must be valid JSON"
ErrFields == "Command must include action and timestamp"
ErrTimestamp == "Command timestamp is too old or too far in the future"
ErrNull == "Cannot read properties of null (reading 'action')"

Truthy(v) ==
    CASE v.kind = "str" -> v.s # ""
      [] v.kind = "num" -> v.n # 0
      [] v.kind = "obj" -> TRUE
      [] OTHER -> FALSE

\* isValidTimestamp(signedCommand.timestamp): a value that is no number makes
\* now - timestamp NaN, and the comparison false
TimestampFresh(v, t) ==
    v.kind = "num" /\ isValidTimestamp(v.n, DefaultWindowMinutes, t)

ErrDecode == "Non-base58 character"

\* the checks with a verifySignature that lets the decoder's exception through
CheckRequestDecodeThrows(req, t, keys) ==
    IF req.msg.kind = "empty" \/ req.sig.kind = "empty" \/ req.publicKey = ""
    THEN ErrMissing
    ELSE IF VerifyThrows(req.sig, req.publicKey) THEN ErrDecode
    ELSE IF ~verifySignature(req.msg, req.sig, req.publicKey) THEN ErrSignature
    ELSE IF ~isAuthorizedKey(keys, req.publicKey) THEN ErrUnauthorized
    ELSE ""

\* The checks before the first await: "" when all pass, else the error returned.
CheckRequest(req, t, keys) ==
    IF req.msg.kind = "empty" \/ req.sig.kind = "empty" \/ req.publicKey = ""
    THEN ErrMissing
    ELSE IF ~verifySignature(req.msg, req.sig, req.publicKey) THEN ErrSignature
    ELSE IF ~isAuthorizedKey(keys, req.publicKey) THEN ErrUnauthorized
    ELSE LET parsed == JSONparse(req.msg)
         IN  IF parsed.threw THEN ErrFormat
             ELSE IF parsed.null THEN ErrNull
             ELSE IF ~Truthy(GetT(parsed.obj, "action"))
                     \/ ~Truthy(GetT(parsed.obj, "timestamp"))
             THEN ErrFields
             ELSE IF ~TimestampFresh(GetT(parsed.obj, "timestamp"), t) THEN ErrTimestamp
             ELSE ""

Result(success, error, output, invoked) ==
    [success |-> success, error |-> error, output |-> output, invoked |-> invoked]

NotesCall(threw, notes, invoked) == [threw |-> threw, notes |-> notes, invoked |-> invoked]
NoNotesCall == NotesCall(TRUE, <<>>, FALSE)

\* The inputs one execution takes from its surroundings: how the tool runs
\* (outcome, stdout), and what createSignedCommand finds when the execution
\* signs a command of its own (key file, library, nonce).
Env(outcome, stdout, fileLength, libraryReturns, nonce) ==
    [outcome |-> outcome, stdout |-> stdout, fileLength |-> fileLength,
     libraryReturns |-> libraryReturns, nonce |-> nonce]

\* after executeWalletCommand
AfterExecute(built, ex) ==
    IF ex.threw
    THEN Result(FALSE, ex.error, NoStdout, built.invoked \/ ex.invoked)
    ELSE Result(TRUE, "", ex.output, built.invoked \/ ex.invoked)

\* after parseAndBuildCommand
AfterBuild(built, env) ==
    IF ~built.ok THEN Result(FALSE, built.error, NoStdout, built.invoked)
    ELSE AfterExecute(built, executeWalletCommand(built.cmd, env.outcome, env.stdout))

\* after the checks
AfterChecks(error, req, notesCall, env) ==
    IF error # "" THEN Result(FALSE, error, NoStdout, FALSE)
    ELSE AfterBuild(parseAndBuildCommand(JSONparse(req.msg).obj, notesCall), env)

ProcessWith(req, t, keys, notesCall, env) ==
    AfterChecks(CheckRequest(req, t, keys), req, notesCall, env)

\* getAllNotes(): sign a list-notes command, process it, parse the listing
NotesFrom(result) ==
    IF ~result.success \/ result.output.empty
    THEN NotesCall(TRUE, <<>>, result.invoked)
    ELSE NotesCall(FALSE, parseNotesOutput(result.output.blocks), result.invoked)

NotesWith(command, t, keys, env) ==
    IF command.threw THEN NoNotesCall
    ELSE NotesFrom(ProcessWith(command.req, t, keys, NoNotesCall, env))

getAllNotes(t, keys, env) ==
    NotesWith(createSignedCommand(TStr("list-notes"), TObj(<<>>), t, env.nonce,
                                  env.fileLength, env.libraryReturns),
              t, keys, env)

processSignedCommand(req, t, keys, env) ==
    ProcessWith(req, t, keys, getAllNotes(t, keys, env), env)

(***************************************************************************)
(* Inputs.                                                                 *)
(***************************************************************************)
Nonces == {"n1", "n2"}
KeyFileLengths == {32, 64}

AddrR == Address("R", 150, TRUE, 110)

WalletListing ==
    Stdout(FALSE, <<NoteBlock(TRUE, <<"a">>, <<"b">>, TRUE, 100)>>)

SpendParams ==
    TObj(<<PField("recipients", PRecipients(<<Recipient(1, AddrR)>>)),
           PField("gifts", PGifts(<<5>>)),
           PField("names", PNames(<< <<(<<"s">>), (<<"b">>)>> >>)),
           PField("fee", PNum(10))>>)
AmountParams ==
    TObj(<<PField("recipients", PRecipients(<<Recipient(1, AddrR)>>)),
           PField("amountNock", PNum(1)),
           PField("fee", PNum(10))>>)
PubkeyParams(c) == TObj(<<PField("pubkey", PStr(<<c>>))>>)

\* what callers ask createSignedCommand to sign
Commands ==
    { <<TStr("list-notes"), TObj(<<>>)>>,
      <<TStr("list-notes-by-pubkey"), PubkeyParams("x")>>,
      <<TStr("list-notes-by-pubkey"), PubkeyParams("y")>>,
      <<TStr("simple-spend"), SpendParams>>,
      <<TStr("simple-spend"), AmountParams>> }

Envs ==
    {Env(o, WalletListing, 32, TRUE, "n1") : o \in ExecOutcomes}
    \cup {Env("ok", NoStdout, 32, TRUE, "n1"), Env("ok", WalletListing, 32, FALSE, "n1")}

\* the texts a caller may write by hand and sign as they are
Window == DefaultWindowMinutes * SecondsPerMinute
HandTexts(t) ==
    {EmptyText, NotJsonText, NullText}
    \cup {JSONstringify(SignedCommand(TStr("list-notes"), TObj(<<>>), ts, TStr("n1"))) :
            ts \in {TNum(t - Window - 1), TNum(t - Window), TNum(t + Window),
                    TNum(t + Window + 1), TNum(0), TUndef}}
    \cup {JSONstringify(SignedCommand(c[1], c[2], TNum(t), TStr("n1"))) :
            c \in Commands \cup { <<TUndef, TObj(<<>>)>>, <<TStr("swap"), TObj(<<>>)>> }}

BaseText(t) ==
    JSONstringify(SignedCommand(TStr("list-notes"), TObj(<<>>), TNum(t), TStr("n1")))

HandRequests(t) ==
    {Request(m, NaclSignDetached(m, "A"), "pkA") : m \in HandTexts(t)}
    \cup {Request(BaseText(t), sg, pk) :
            sg \in {NaclSignDetached(BaseText(t), "A"), NaclSignDetached(BaseText(t), "B"),
                    NaclSignDetached(NullText, "A"), NotB58Sig, ShortSig, EmptySig},
            pk \in {"pkA", "pkB", "", "pkShort", "not-base58"}}

(***************************************************************************)
(* The swap registry.  A SwapTransaction is a JavaScript object: a handler *)
(* keeps the reference it read before an await, whatever the registry      *)
(* holds under the same swap_id afterwards.                                *)
(***************************************************************************)
ConfirmationTimeout == 3
StatusOk == 200
StatusBadRequest == 400
StatusNotFound == 404
StatusConflict == 409
StatusServerError == 500

ErrSwapMissing == "Missing required fields: swap_id, recipient, amount, msg, sig, publicKey"
ErrSwapExists == "Swap ID already exists"
ErrSwapNotFound == "Swap not found"
ErrNotConfirmed == "Transaction not confirmed after 3 blocks"
ErrNetwork == "Network error"
ErrKeyLoad == "Failed to load signing key"
ErrSyntax == "Unexpected token in JSON"
ErrSetNull == "Cannot set properties of null (setting 'action')"

SwapIds == {"s1"}
Handlers == {1, 2}

\* the body of POST /swap/initiate
Body(swap_id, recipient, amount, fee, req) ==
    [swap_id |-> swap_id, recipient |-> recipient, amount |-> amount, fee |-> fee,
     msg |-> req.msg, sig |-> req.sig, publicKey |-> req.publicKey]
NoBody == Body("", NoAddress, 0, 0, NoRequest)

Response(code, status, error) == [code |-> code, status |-> status, error |-> error]
NoResponse == Response(0, "", "")

SwapTransaction(swap_id, recipient, amount, fee, currentHeight, t, notesBefore) ==
    [swap_id |-> swap_id, recipient |-> recipient, amount |-> amount, fee |-> fee,
     initial_block_height |-> currentHeight, status |-> "pending",
     created_at |-> t, updated_at |-> t, notes_before |-> notesBefore,
     change_utxo |-> <<>>, tx_id |-> "", confirmed_block_height |-> -1, error |-> ""]

\* a handler: which one it is, the await it is suspended at, and its locals
Handler(kind, pc, body, req, swap, currentHeight, blocksToCheck) ==
    [kind |-> kind, pc |-> pc, body |-> body, req |-> req, swap |-> swap,
     currentHeight |-> currentHeight, blocksToCheck |-> blocksToCheck]
NoHandler == Handler("none", "done", NoBody, NoRequest, 0, 0, <<>>)


\* a transaction of a block, as getTransactionsByBlockHeight returns it
Output(address, amount) == [address |-> address, amount |-> amount]
Tx(id, outputs) == [id |-> id, outputs |-> outputs]

NoSwaps ==
    /\ swapTransactions = [id \in SwapIds |-> 0]
    /\ heap = <<>>
    /\ procs = [p \in Handlers |-> NoHandler]
    /\ height = 0
    /\ chain = << <<>> >>

(***************************************************************************)
(* The signed-command layer as a state machine.                            *)
(***************************************************************************)
\* calls: how many times the request at hand was sent (2: twice or more);
\* invocations: in how many of them the wallet tool was started
NoRun ==
    [done |-> FALSE, req |-> NoRequest, at |-> 0, keys |-> <<>>,
     result |-> Result(FALSE, "", NoStdout, FALSE), calls |-> 0, invocations |-> 0]

Ran(previous, req, t, keys, result) ==
    [done |-> TRUE, req |-> req, at |-> t, keys |-> keys, result |-> result,
     calls |-> Min(previous.calls + 1, 2),
     invocations |-> Min(previous.invocations + (IF result.invoked THEN 1 ELSE 0), 2)]

NoTsCall == [done |-> FALSE, timestamp |-> 0, windowMinutes |-> 0, at |-> 0, result |-> FALSE]
NoAuthCall == [done |-> FALSE, publicKey |-> "", result |-> FALSE]
NoCall ==
    [fn |-> "none", stage |-> "input", signedCommand |-> <<>>, notesCall |-> NoNotesCall,
     validated |-> Invalid("", FALSE), built |-> NotBuilt("", FALSE),
     amountNock |-> Whole(0), availableNotes |-> <<>>,
     selection |-> [threw |-> TRUE, error |-> "", selectedNotes |-> <<>>,
                    totalAssets |-> 0],
     fee |-> 0, gifts |-> <<>>, listing |-> Result(FALSE, "", NoStdout, FALSE),
     output |-> <<>>, notes |-> <<>>,
     input |-> <<>>, sanitized |-> <<>>, again |-> <<>>]

SpecAuthEnvs == {EnvUnset, EnvValue(<<>>), EnvValue(<<"pkA">>)}
AllAuthEnvs == SpecAuthEnvs \cup {EnvValue(<<"pkA", ",", "pkB">>), EnvValue(<<"pkB", ",">>)}

Init ==
    /\ now = StartTime
    /\ authEnv \in SpecAuthEnvs
    /\ signed = NoSigned
    /\ run = NoRun
    /\ tsCall = NoTsCall
    /\ authCall = NoAuthCall
    /\ call = NoCall
    /\ exec = NoExec
    /\ NoSwaps

TicksTaken(t) == ((t - StartTime) \div Window) + ((t - StartTime) % Window)

\* time passes: a second, or a whole freshness window
Tick ==
    /\ \E d \in {1, Window} :
          /\ TicksTaken(now + d) <= MaxTicks
          /\ now' = now + d
    /\ UNCHANGED <<authEnv, signed, run, tsCall, authCall>>
    /\ UNCHANGED <<call, exec, swapVars>>

\* POST /sign: the server's createSignedCommand
ServerSign ==
    /\ \E c \in Commands, nonce \in Nonces, len \in KeyFileLengths, lib \in BOOLEAN :
          signed' = createSignedCommand(c[1], c[2], now, nonce, len, lib)
    /\ run' = NoRun
    /\ UNCHANGED <<now, authEnv, tsCall, authCall>>
    /\ UNCHANGED <<call, exec, swapVars>>

\* NockchainClient.createSignedCommand, as sendCommand calls it
ClientSign ==
    /\ \E c \in Commands, nonce \in Nonces :
          signed' = ClientCreateSignedCommand(c[1], c[2], now, nonce, "A")
    /\ run' = NoRun
    /\ UNCHANGED <<now, authEnv, tsCall, authCall>>
    /\ UNCHANGED <<call, exec, swapVars>>

\* a caller that builds msg, sig and publicKey without the repository's signer
HandSign ==
    /\ \E r \in HandRequests(now) :
          signed' = [by |-> "hand", threw |-> FALSE, envelope |-> <<>>,
                     bytes |-> r.sig.over, req |-> r, keyLength |-> 0]
    /\ run' = NoRun
    /\ UNCHANGED <<now, authEnv, tsCall, authCall>>
    /\ UNCHANGED <<call, exec, swapVars>>

\* POST /send with the request at hand
Send ==
    /\ signed.by # "none" /\ ~signed.threw
    /\ \E env \in Envs :
          run' = Ran(run, signed.req, now, AUTHORIZED_PUBLIC_KEYS(authEnv),
                     processSignedCommand(signed.req, now,
                                          AUTHORIZED_PUBLIC_KEYS(authEnv), env))
    /\ UNCHANGED <<now, authEnv, signed, tsCall, authCall>>
    /\ UNCHANGED <<call, exec, swapVars>>

Next == Tick \/ ServerSign \/ ClientSign \/ HandSign \/ Send

Spec == Init /\ [][Next]_vars

(***************************************************************************)
(* The pure functions, called directly.                                    *)
(***************************************************************************)
InitFn ==
    /\ now = StartTime
    /\ authEnv \in AllAuthEnvs
    /\ signed = NoSigned
    /\ run = NoRun
    /\ tsCall = NoTsCall
    /\ authCall = NoAuthCall
    /\ call = NoCall
    /\ exec = NoExec
    /\ NoSwaps

WindowChoices == {1, DefaultWindowMinutes}

CallIsValidTimestamp ==
    /\ \E w \in WindowChoices :
       \E d \in {-(w * SecondsPerMinute) - 1, -(w * SecondsPerMinute), -1, 0, 1,
                 w * SecondsPerMinute, (w * SecondsPerMinute) + 1} :
          tsCall' = [done |-> TRUE, timestamp |-> now + d, windowMinutes |-> w,
                     at |-> now, result |-> isValidTimestamp(now + d, w, now)]
    /\ UNCHANGED <<now, authEnv, signed, run, authCall>>
    /\ UNCHANGED <<call, exec, swapVars>>

CallIsAuthorizedKey ==
    /\ \E pk \in {"pkA", "pkB", "pkS", ""} :
          authCall' = [done |-> TRUE, publicKey |-> pk,
                       result |-> isAuthorizedKey(AUTHORIZED_PUBLIC_KEYS(authEnv), pk)]
    /\ UNCHANGED <<now, authEnv, signed, run, tsCall>>
    /\ UNCHANGED <<call, exec, swapVars>>

NextFn == Tick \/ CallIsValidTimestamp \/ CallIsAuthorizedKey

SpecFn == InitFn /\ [][NextFn]_vars

(***************************************************************************)
(* The command builder and the coin selector, called directly.  The        *)
(* arguments of the call are drawn at the start.                           *)
(***************************************************************************)
AddrShort == Address("S", 149, TRUE, 110)
AddrLong == Address("L", 157, TRUE, 115)
AddrMax == Address("M", 156, TRUE, 115)

Repeat(x, n) == [i \in 1..n |-> x]

RecipientLists ==
    { <<>>, <<Recipient(1, AddrR)>>, <<Recipient(1, AddrMax), Recipient(2, AddrR)>>,
      Repeat(Recipient(999, AddrR), MaxRecipients),
      Repeat(Recipient(1, AddrR), MaxRecipients + 1),
      <<Recipient(0, AddrR)>>, <<Recipient(1000, AddrR)>>,
      <<HalfCountRecipient(1, AddrR)>>, <<NoRecipient>>,
      <<Recipient(1, AddrShort)>>, <<Recipient(1, AddrLong)>> }

FeeValues ==
    {PNum(0), PNum(1), PNum(1000), PNum(1001), PHalf(1), PStr(<<"7">>), PUndef}
GiftValues ==
    {PGifts(<<5>>), PGifts(<<5, 6>>), PGifts(<<>>), PGifts(<<0>>),
     PGifts(<<MaxGift, MaxGift + 1>>), PUndef}
NameValues ==
    {PNames(<< <<(<<"s">>), (<<"b">>)>> >>), PNames(<< <<(<<";">>)>> >>),
     PNames(<< <<(<<"a", ";", "b">>), (<<"c", "$", "(", "d", ")">>)>> >>), PUndef}
AmountValues == {PNum(1), PNum(0), PStr(<<"2">>), PHalf(0)}

NoteBig == ParsedNote(<<"a">>, <<"b">>, 20 * AssetsPerNock)
NoteOne == ParsedNote(<<"c">>, <<"d">>, AssetsPerNock + SelectionOverhead)
NoteShort == ParsedNote(<<"e">>, <<"f">>, (AssetsPerNock + SelectionOverhead) - 1)
NoteQuoted == ParsedNote(<<"x", ";", "r", "m">>, <<"$", "g">>, AssetsPerNock)
NoteTiny == ParsedNote(<<"h">>, <<"i">>, 1)
Notes == {NoteBig, NoteOne, NoteShort, NoteQuoted, NoteTiny}

MaxNotes == 3
MaxListed == 2
NoteLists(n) == UNION {[1..k -> Notes] : k \in 0..n}

SpendObject(recipients, gifts, names, fee, amountNock) ==
    TObj(<<PField("recipients", PRecipients(recipients)), PField("gifts", gifts),
           PField("names", names), PField("fee", fee),
           PField("amountNock", amountNock)>>)

BuildInputs ==
    { <<TStr("simple-spend"), SpendObject(rs, g, n, f, PUndef), NoNotesCall>> :
        rs \in RecipientLists, g \in GiftValues, n \in NameValues, f \in FeeValues }
    \cup { <<TStr("simple-spend"), SpendObject(rs, PUndef, PUndef, f, a), nc>> :
             rs \in { <<Recipient(1, AddrR)>>, <<Recipient(0, AddrR)>>,
                      <<Recipient(1, AddrMax), Recipient(2, AddrR)>> },
             f \in {PNum(1), PNum(1000), PNum(1001), PStr(<<"7">>)},
             a \in AmountValues,
             nc \in {NotesCall(TRUE, <<>>, TRUE)}
                    \cup {NotesCall(FALSE, l, TRUE) : l \in NoteLists(MaxListed)} }
    \cup { <<TStr("list-notes-by-pubkey"), TObj(<<PField("pubkey", pk)>>), NoNotesCall>> :
             pk \in {PStr(<<"x">>), PStr(<<"x", ";", "y">>), PStr(<<";">>), PStr(<<>>),
                     PNum(5), PUndef} }
    \cup { <<TStr("list-notes"), TObj(<<>>), NoNotesCall>>,
           <<TStr("simple-spend"), TUndef, NoNotesCall>>,
           <<TStr("list-notes-by-pubkey"), TUndef, NoNotesCall>>,
           <<TStr("swap"), TObj(<<>>), NoNotesCall>> }

SelectAmounts == {Whole(0), Whole(1), Whole(2), Whole(21), Half(0)}
SelectFees == {MinFee, 10, MaxFee}

ToBuild(signedCommand, notesCall) ==
    [NoCall EXCEPT !.fn = "parseAndBuildCommand", !.signedCommand = signedCommand,
                   !.notesCall = notesCall]
ToSelect(amountNock, availableNotes, fee) ==
    [NoCall EXCEPT !.fn = "getNotesEqualTo", !.amountNock = amountNock,
                   !.availableNotes = availableNotes, !.fee = fee]

InitSpend ==
    /\ now = StartTime
    /\ authEnv = EnvUnset
    /\ signed = NoSigned
    /\ run = NoRun
    /\ tsCall = NoTsCall
    /\ authCall = NoAuthCall
    /\ call \in {ToBuild(SignedCommand(b[1], b[2], TNum(StartTime), TStr("n1")), b[3]) :
                    b \in BuildInputs}
                \cup {ToSelect(a, l, f) :
                        a \in SelectAmounts, l \in NoteLists(MaxNotes), f \in SelectFees}
    /\ exec = NoExec
    /\ NoSwaps

IsSimpleSpend(signedCommand) ==
    GetT(signedCommand, "action") = TStr("simple-spend")

CallParseAndBuildCommand ==
    /\ call.fn = "parseAndBuildCommand" /\ call.stage = "input"
    /\ call' = [call EXCEPT
                  !.stage = "built",
                  !.validated =
                      IF IsSimpleSpend(call.signedCommand)
                      THEN validateSimpleSpendParamsWithUTXOs(
                               GetT(call.signedCommand, "params"), call.notesCall)
                      ELSE call.validated,
                  !.built = parseAndBuildCommand(call.signedCommand, call.notesCall)]
    /\ UNCHANGED <<now, authEnv, signed, run, tsCall, authCall, exec>>
    /\ UNCHANGED swapVars

\* the earlier copy's validator on the same arguments
CallValidateSimpleSpendParams ==
    /\ call.fn = "parseAndBuildCommand" /\ call.stage = "input"
    /\ IsSimpleSpend(call.signedCommand)
    /\ call' = [call EXCEPT
                  !.fn = "validateSimpleSpendParams",
                  !.stage = "validated",
                  !.validated =
                      validateSimpleSpendParams(GetT(call.signedCommand, "params"))]
    /\ UNCHANGED <<now, authEnv, signed, run, tsCall, authCall, exec>>
    /\ UNCHANGED swapVars

CallGetNotesEqualTo ==
    /\ call.fn = "getNotesEqualTo" /\ call.stage = "input"
    /\ call' = [call EXCEPT
                  !.stage = "selected",
                  !.selection = getNotesEqualTo(call.amountNock, call.availableNotes)]
    /\ UNCHANGED <<now, authEnv, signed, run, tsCall, authCall, exec>>
    /\ UNCHANGED swapVars

\* buildGiftsArray on what getNotesEqualTo returned
CallBuildGiftsArray ==
    /\ call.fn = "getNotesEqualTo" /\ call.stage = "selected" /\ ~call.selection.threw
    /\ call' = [call EXCEPT
                  !.stage = "gifts",
                  !.gifts = buildGiftsArray(call.selection.selectedNotes,
                                            call.amountNock, call.fee)]
    /\ UNCHANGED <<now, authEnv, signed, run, tsCall, authCall, exec>>
    /\ UNCHANGED swapVars

NextSpend ==
    \/ CallParseAndBuildCommand \/ CallValidateSimpleSpendParams
    \/ CallGetNotesEqualTo \/ CallBuildGiftsArray

SpecSpend == InitSpend /\ [][NextSpend]_vars

(***************************************************************************)
(* The swap handlers.  A handler runs from one await to the next in one    *)
(* step; between two steps of a handler any other handler may run.         *)
(***************************************************************************)
\* spendParams of POST /swap/initiate
SwapSpendParams(body) ==
    TObj(<<PField("recipients", PRecipients(<<Recipient(1, body.recipient)>>)),
           PField("gifts", PGifts(<<body.amount>>)),
           PField("names", PNames(<< <<(<<"s", "w", "a", "p">>),
                                       (<<"b", "r", "i", "d", "g", "e">>)>> >>)),
           PField("fee", PNum(body.fee))>>)

\* parsedCommand.action = 'simple-spend'; parsedCommand.params = spendParams;
\* the text is written again and sent with the caller's sig
UpdatedCommandRequest(body, parsedCommand) ==
    Request(JSONstringify(SetT(SetT(parsedCommand, "action", TStr("simple-spend")),
                               "params", SwapSpendParams(body))),
            body.sig, body.publicKey)

\* the msg of NockchainClient.initiateSwap, and the msg a caller writes who
\* knows what the handler will make of it
SwapText(t) == JSONstringify(SignedCommand(TStr("swap"), TObj(<<>>), TNum(t), TStr("n1")))
SpendText(t) ==
    JSONstringify(SignedCommand(TStr("simple-spend"),
                                SwapSpendParams(Body("s1", AddrR, 5, 10, NoRequest)),
                                TNum(t), TStr("n1")))

SwapRequests(t) ==
    {Request(m, NaclSignDetached(m, "A"), "pkA") : m \in {SwapText(t), SpendText(t)}}

SwapBodies(t) ==
    {Body("s1", AddrR, 5, 10, r) : r \in SwapRequests(t)}
    \cup {Body("s1", AddrR, 0, 10, Request(SwapText(t), NaclSignDetached(SwapText(t), "A"), "pkA"))}

SwapEnvs == {Env(o, WalletListing, 32, lib, "n1") : o \in {"ok", "send-fails"}, lib \in BOOLEAN}

\* The block that holds the payment of 5 to R, after a transaction that pays
\* another amount; a transaction is in one block of the chain.
PaymentBlock ==
    <<Tx("t0", <<Output("R", 6)>>), Tx("t1", <<Output("Q", 5), Output("R", 5)>>)>>
BlockChoices ==
    { <<>> } \cup {b \in {PaymentBlock} : \A i \in 1..Len(chain) : chain[i] # b}

InitSwap ==
    /\ now = StartTime
    /\ authEnv = EnvValue(<<"pkA">>)
    /\ signed = NoSigned
    /\ run = NoRun
    /\ tsCall = NoTsCall
    /\ authCall = NoAuthCall
    /\ call = NoCall
    /\ exec = NoExec
    /\ NoSwaps

\* !swap_id || !recipient || !amount || !msg || !sig || !publicKey
BodyFieldMissing(body) ==
    \/ body.swap_id = "" \/ body.recipient.id = "" \/ body.amount = 0
    \/ body.msg.kind = "empty" \/ body.sig.kind = "empty" \/ body.publicKey = ""

\* a request is served by the first handler slot that is free
FreeSlot(p) == procs[p].kind = "none" /\ \A q \in Handlers : procs[q].kind = "none" => p <= q

\* res.json(...) or res.status(...).json(...): the handler answers and is over;
\* the response goes to the caller and leaves no trace in the server
Finish(p, kind, body, response) == procs' = [procs EXCEPT ![p] = NoHandler]

\* await: the handler is suspended with its locals
Suspend(p, handler) == procs' = [procs EXCEPT ![p] = handler]

\* POST /swap/initiate up to await blockchainApi.getHeight()
InitiateStartWith(bodies) ==
    /\ \E p \in Handlers, body \in bodies :
          /\ FreeSlot(p)
          /\ IF BodyFieldMissing(body)
             THEN Finish(p, "initiate", NoBody,
                         Response(StatusBadRequest, "", ErrSwapMissing))
             ELSE IF swapTransactions[body.swap_id] # 0
             THEN Finish(p, "initiate", NoBody,
                         Response(StatusConflict, "", ErrSwapExists))
             ELSE Suspend(p, Handler("initiate", "getHeight", body, NoRequest, 0, 0, <<>>))
    /\ UNCHANGED <<swapTransactions, heap, height, chain>>
    /\ UNCHANGED sendVars

InitiateStart == InitiateStartWith(SwapBodies(now))

\* getHeight answers or throws; then await createSignedCommand('list-notes', {})
InitiateHeight ==
    /\ \E p \in Handlers, rpcOk \in BOOLEAN :
          /\ procs[p].kind = "initiate" /\ procs[p].pc = "getHeight"
          /\ IF rpcOk
             THEN Suspend(p, Handler("initiate", "notes", procs[p].body, NoRequest, 0,
                                     height, <<>>))
             ELSE Finish(p, "initiate", NoBody,
                         Response(StatusServerError, "", ErrNetwork))
    /\ UNCHANGED <<swapTransactions, heap, height, chain>>
    /\ UNCHANGED sendVars

\* notesResult.success && notesResult.output ? parseNotesOutput(notesResult.output) : []
NotesOf(notesResult) ==
    IF notesResult.success /\ ~notesResult.output.empty
    THEN parseNotesOutput(notesResult.output.blocks)
    ELSE <<>>

\* the entry is created and set; msg is parsed and rewritten
InitiateRegister(p, body, currentHeight, notesBefore, parsed) ==
    /\ heap' = Append(heap, SwapTransaction(body.swap_id, body.recipient.id, body.amount,
                                            body.fee, currentHeight, now, notesBefore))
    /\ swapTransactions' = [swapTransactions EXCEPT ![body.swap_id] = Len(heap) + 1]
    /\ IF parsed.threw
       THEN Finish(p, "initiate", NoBody, Response(StatusServerError, "", ErrSyntax))
       ELSE IF parsed.null
       THEN Finish(p, "initiate", NoBody, Response(StatusServerError, "", ErrSetNull))
       ELSE Suspend(p, Handler("initiate", "send", body,
                               UpdatedCommandRequest(body, parsed.obj),
                               Len(heap) + 1, currentHeight, <<>>))

InitiateNotesWith(p, notesCommand, env) ==
    IF notesCommand.threw
    THEN /\ Finish(p, "initiate", NoBody, Response(StatusServerError, "", ErrKeyLoad))
         /\ UNCHANGED <<swapTransactions, heap>>
    ELSE InitiateRegister(p, procs[p].body, procs[p].currentHeight,
             NotesOf(processSignedCommand(notesCommand.req, now,
                                          AUTHORIZED_PUBLIC_KEYS(authEnv), env)),
             JSONparse(procs[p].body.msg))

\* the list-notes round trip returns; up to await processSignedCommand(updatedCommandRequest)
InitiateNotes ==
    /\ \E p \in Handlers, env \in SwapEnvs :
          /\ procs[p].kind = "initiate" /\ procs[p].pc = "notes"
          /\ InitiateNotesWith(p,
                createSignedCommand(TStr("list-notes"), TObj(<<>>), now, env.nonce,
                                    env.fileLength, env.libraryReturns), env)
    /\ UNCHANGED <<height, chain>>
    /\ UNCHANGED sendVars

InitiateSendWith(p, swap, sendResult) ==
    IF ~sendResult.success
    THEN /\ heap' = [heap EXCEPT ![swap] =
                [@ EXCEPT !.status = "failed", !.error = sendResult.error,
                          !.updated_at = now]]
         /\ Finish(p, "initiate", procs[p].body,
                   Response(StatusBadRequest, "failed", sendResult.error))
    ELSE /\ heap' = heap
         /\ Finish(p, "initiate", procs[p].body,
                   Response(StatusOk, heap[swap].status, ""))

\* the spend returns; the response is written
InitiateSend ==
    /\ \E p \in Handlers, env \in SwapEnvs :
          /\ procs[p].kind = "initiate" /\ procs[p].pc = "send"
          /\ InitiateSendWith(p, procs[p].swap,
                processSignedCommand(procs[p].req, now, AUTHORIZED_PUBLIC_KEYS(authEnv), env))
    /\ UNCHANGED <<swapTransactions, height, chain>>
    /\ UNCHANGED sendVars

\* the view GET /swap/status/:swap_id answers with
StatusView(obj) == Response(StatusOk, obj.status, obj.error)

StatusBegin(p, swap) ==
    IF swap = 0
    THEN Finish(p, "status", NoBody, Response(StatusNotFound, "", ErrSwapNotFound))
    ELSE IF heap[swap].status \in {"pending", "unconfirmed"}
    THEN Suspend(p, Handler("status", "notes", NoBody, NoRequest, swap, 0, <<>>))
    ELSE IF heap[swap].status = "sent-pending"
    THEN Suspend(p, Handler("status", "getHeight", NoBody, NoRequest, swap, 0, <<>>))
    ELSE Finish(p, "status", NoBody, StatusView(heap[swap]))

\* GET /swap/status/:swap_id up to its first await
StatusStartOf(ids) ==
    /\ \E p \in Handlers, id \in ids :
          /\ FreeSlot(p)
          /\ StatusBegin(p, swapTransactions[id])
    /\ UNCHANGED <<swapTransactions, heap, height, chain>>
    /\ UNCHANGED sendVars

StatusStart == StatusStartOf(SwapIds)

\* the comparison by the two names alone
SameNoteByName(a, b) == a.first_name = b.first_name /\ a.last_name = b.last_name

SameNote(a, b) ==
    a.assets = b.assets /\ a.first_name = b.first_name /\ a.last_name = b.last_name

\* notes_before is non-empty and not every old note is among the current ones
NotesSpent(notesBefore, currentNotes) ==
    /\ Len(notesBefore) > 0
    /\ ~(\A i \in 1..Len(notesBefore) :
            \E j \in 1..Len(currentNotes) : SameNote(currentNotes[j], notesBefore[i]))

NewNotes(notesBefore, currentNotes) ==
    SelectSeq(currentNotes,
              LAMBDA n : ~(\E i \in 1..Len(notesBefore) : SameNote(notesBefore[i], n)))

MarkSent(obj, newNotes) ==
    [obj EXCEPT !.status = "sent-pending", !.updated_at = now,
                !.change_utxo = IF Len(newNotes) > 0 THEN newNotes ELSE @]

\* the swap object after the note check of the pending branch
AfterNotesCheck(obj, notesResult) ==
    IF /\ notesResult.success /\ ~notesResult.output.empty
       /\ NotesSpent(obj.notes_before, parseNotesOutput(notesResult.output.blocks))
    THEN MarkSent(obj, NewNotes(obj.notes_before,
                                parseNotesOutput(notesResult.output.blocks)))
    ELSE obj

\* if (swap.status === 'sent-pending') after the pending branch
StatusContinue(p, swap, obj) ==
    /\ heap' = [heap EXCEPT ![swap] = obj]
    /\ IF obj.status = "sent-pending"
       THEN Suspend(p, Handler("status", "getHeight", NoBody, NoRequest, swap, 0, <<>>))
       ELSE Finish(p, "status", NoBody, StatusView(obj))

StatusNotesWith(p, swap, notesCommand, env) ==
    IF notesCommand.threw
    THEN StatusContinue(p, swap, heap[swap])
    ELSE StatusContinue(p, swap,
             AfterNotesCheck(heap[swap],
                 processSignedCommand(notesCommand.req, now,
                                      AUTHORIZED_PUBLIC_KEYS(authEnv), env)))

\* the list-notes round trip of the pending branch returns
StatusNotes ==
    /\ \E p \in Handlers, env \in SwapEnvs :
          /\ procs[p].kind = "status" /\ procs[p].pc = "notes"
          /\ StatusNotesWith(p, procs[p].swap,
                createSignedCommand(TStr("list-notes"), TObj(<<>>), now, env.nonce,
                                    env.fileLength, env.libraryReturns), env)
    /\ UNCHANGED <<swapTransactions, height, chain>>
    /\ UNCHANGED sendVars

\* the current block and the two before it
BlocksToCheckThree(currentHeight, initialHeight) ==
    IF currentHeight > initialHeight + 1
    THEN <<currentHeight, currentHeight - 1, currentHeight - 2>>
    ELSE IF currentHeight > initialHeight
    THEN <<currentHeight, currentHeight - 1>>
    ELSE <<currentHeight>>

\* the current block and, past the initial height, the one before it
BlocksToCheck(currentHeight, initialHeight) ==
    IF currentHeight > initialHeight
    THEN <<currentHeight, currentHeight - 1>>
    ELSE <<currentHeight>>

\* getHeight answers a height that is at most lag blocks behind the chain, or
\* throws
StatusHeightReporting(answers, lag) ==
    /\ \E p \in Handlers, rpcOk \in answers,
          currentHeight \in {h \in 0..height : h >= height - lag} :
          /\ procs[p].kind = "status" /\ procs[p].pc = "getHeight"
          /\ IF rpcOk
             THEN Suspend(p, Handler("status", "block", NoBody, NoRequest, procs[p].swap,
                             currentHeight,
                             BlocksToCheck(currentHeight,
                                           heap[procs[p].swap].initial_block_height)))
             ELSE Finish(p, "status", NoBody, StatusView(heap[procs[p].swap]))
    /\ UNCHANGED <<swapTransactions, heap, height, chain>>
    /\ UNCHANGED sendVars

\* getHeight answers the height of the chain, or throws
StatusHeightWith(answers) == StatusHeightReporting(answers, 0)

StatusHeight == StatusHeightWith(BOOLEAN)

MatchesSwap(tx, obj) ==
    \E i \in 1..Len(tx.outputs) :
        tx.outputs[i].address = obj.recipient /\ tx.outputs[i].amount = obj.amount

\* transactions.find(...): the matching transactions, the first one being found
MatchingTx(transactions, obj) == SelectSeq(transactions, LAMBDA tx : MatchesSwap(tx, obj))

\* the confirmation without the time stamp
MarkConfirmedUnstamped(obj, tx, blockHeight) ==
    [obj EXCEPT !.status = "sent-confirmed", !.tx_id = tx.id,
                !.confirmed_block_height = blockHeight]

MarkConfirmed(obj, tx, blockHeight) ==
    [obj EXCEPT !.status = "sent-confirmed", !.tx_id = tx.id,
                !.confirmed_block_height = blockHeight, !.updated_at = now]

\* the timeout check one block early
AfterLoopEarly(obj, currentHeight) ==
    IF currentHeight - obj.initial_block_height >= ConfirmationTimeout - 1
       /\ obj.status # "sent-confirmed"
    THEN [obj EXCEPT !.status = "failed", !.error = ErrNotConfirmed, !.updated_at = now]
    ELSE obj

\* the timeout check without the look at the status
AfterLoopIgnoringStatus(obj, currentHeight) ==
    IF currentHeight - obj.initial_block_height >= ConfirmationTimeout
    THEN [obj EXCEPT !.status = "failed", !.error = ErrNotConfirmed, !.updated_at = now]
    ELSE obj

\* no timeout check after the loop
AfterLoopWithoutTimeout(obj, currentHeight) == obj

\* the timeout check after the loop
AfterLoop(obj, currentHeight) ==
    IF currentHeight - obj.initial_block_height >= ConfirmationTimeout
       /\ obj.status # "sent-confirmed"
    THEN [obj EXCEPT !.status = "failed", !.error = ErrNotConfirmed, !.updated_at = now]
    ELSE obj

StatusRespond(p, swap, obj) ==
    /\ heap' = [heap EXCEPT ![swap] = obj]
    /\ Finish(p, "status", NoBody, StatusView(obj))

StatusBlockWith(p, swap, blockHeight, rest, found) ==
    IF Len(found) > 0
    THEN StatusRespond(p, swap,
             AfterLoop(MarkConfirmed(heap[swap], found[1], blockHeight),
                       procs[p].currentHeight))
    ELSE IF Len(rest) = 0
    THEN StatusRespond(p, swap, AfterLoop(heap[swap], procs[p].currentHeight))
    ELSE /\ heap' = heap
         /\ Suspend(p, [procs[p] EXCEPT !.blocksToCheck = rest])

\* getTransactionsByBlockHeight answers or throws for the next block to check
StatusBlock ==
    /\ \E p \in Handlers, rpcOk \in BOOLEAN :
          /\ procs[p].kind = "status" /\ procs[p].pc = "block"
          /\ StatusBlockWith(p, procs[p].swap, Head(procs[p].blocksToCheck),
                Tail(procs[p].blocksToCheck),
                IF rpcOk
                THEN MatchingTx(chain[Head(procs[p].blocksToCheck) + 1],
                                heap[procs[p].swap])
                ELSE <<>>)
    /\ UNCHANGED <<swapTransactions, height, chain>>
    /\ UNCHANGED sendVars

\* updateSwapStatus(swap_id, status) on a registered swap, without updates
updateSwapStatusTo(swap_id, status) ==
    heap' = [heap EXCEPT ![swapTransactions[swap_id]] =
                [@ EXCEPT !.status = status, !.updated_at = now]]

\* the exported updateSwapStatus(swap_id, status), as a monitoring service calls it
\* when it sees that a pending swap was sent
updateSwapStatusOf(ids) ==
    /\ \E id \in ids, status \in {"sent-pending"} :
          /\ swapTransactions[id] # 0
          /\ heap[swapTransactions[id]].status = "pending"
          /\ updateSwapStatusTo(id, status)
    /\ UNCHANGED <<swapTransactions, procs, height, chain>>
    /\ UNCHANGED sendVars

updateSwapStatus == updateSwapStatusOf(SwapIds)

\* Array.from(swapTransactions.values()): the swaps of the registry
RegisteredSwaps ==
    {heap[swapTransactions[id]] : id \in {i \in DOMAIN swapTransactions :
                                            swapTransactions[i] # 0}}

\* the filter of getPendingSwaps and of GET /swap/pending
PendingFilter(swap) == swap.status = "pending" \/ swap.status = "spent_pending"

\* the exported getPendingSwaps(); GET /swap/pending lists the same swaps
getPendingSwaps == {swap \in RegisteredSwaps : PendingFilter(swap)}

\* the chain grows by a block
NewBlock ==
    /\ height < MaxHeight
    /\ \E transactions \in BlockChoices : chain' = Append(chain, transactions)
    /\ height' = height + 1
    /\ UNCHANGED <<swapTransactions, heap, procs>>
    /\ UNCHANGED sendVars

NextSwap ==
    \/ InitiateStart \/ InitiateHeight \/ InitiateNotes \/ InitiateSend
    \/ StatusStart \/ StatusNotes \/ StatusHeight \/ StatusBlock
    \/ updateSwapStatus \/ NewBlock

SpecSwap == InitSwap /\ [][NextSwap]_vars

(***************************************************************************)
(* GET /swap/status on a registered swap, with the answer of the           *)
(* list-notes round trip taken as an input: any CommandResult.             *)
(***************************************************************************)
NoteChanged == ParsedNote(<<"c">>, <<"d">>, 1)
ListedNotes == {NoteOne, NoteShort, NoteChanged}
ListedLists == UNION {[1..k -> ListedNotes] : k \in 0..MaxListed}

\* the wallet's listing of the notes, one block for each
BlocksOf(notes) ==
    [i \in 1..Len(notes) |->
        NoteBlock(TRUE, notes[i].first_name, notes[i].last_name, TRUE, notes[i].assets)]

ListingResults ==
    {Result(FALSE, ErrSignature, NoStdout, FALSE), Result(TRUE, "", NoStdout, TRUE)}
    \cup {Result(TRUE, "", Stdout(FALSE, BlocksOf(l)), TRUE) : l \in ListedLists}
    \cup {Result(TRUE, "", Stdout(FALSE, <<NoteBlock(FALSE, <<>>, <<>>, TRUE, 1)>>), TRUE)}

\* a swap was registered with the notes the wallet held
InitStatusOf(lists) ==
    /\ now = StartTime
    /\ authEnv = EnvValue(<<"pkA">>)
    /\ signed = NoSigned
    /\ run = NoRun
    /\ tsCall = NoTsCall
    /\ authCall = NoAuthCall
    /\ call = NoCall
    /\ exec = NoExec
    /\ swapTransactions = [id \in SwapIds |-> 1]
    /\ \E notesBefore \in lists :
          heap = <<SwapTransaction("s1", AddrR.id, 5, 10, 0, StartTime, notesBefore)>>
    /\ procs = [p \in Handlers |-> NoHandler]
    /\ height = 0
    /\ chain = << <<>> >>

InitStatus == InitStatusOf(ListedLists)

\* the list-notes round trip of the pending branch returns notesResult
StatusNotesAnsweredWith(results) ==
    /\ \E p \in Handlers, notesResult \in results :
          /\ procs[p].kind = "status" /\ procs[p].pc = "notes"
          /\ StatusContinue(p, procs[p].swap,
                            AfterNotesCheck(heap[procs[p].swap], notesResult))
          /\ call' = [NoCall EXCEPT !.fn = "processSignedCommand",
                                    !.listing = notesResult]
    /\ UNCHANGED <<swapTransactions, height, chain>>
    /\ UNCHANGED <<now, authEnv, signed, run, tsCall, authCall, exec>>

StatusNotesAnswered == StatusNotesAnsweredWith(ListingResults)

\* the values of the type of SwapTransaction.status
Statuses == {"pending", "unconfirmed", "sent-pending", "sent-confirmed", "failed"}

\* the exported updateSwapStatus(swap_id, status), called with any status
updateSwapStatusAny ==
    /\ \E id \in SwapIds, status \in Statuses :
          /\ swapTransactions[id] # 0
          /\ updateSwapStatusTo(id, status)
    /\ UNCHANGED <<swapTransactions, procs, height, chain>>
    /\ UNCHANGED sendVars

NextStatus ==
    \/ StatusStart \/ StatusNotesAnswered \/ StatusHeight \/ StatusBlock
    \/ updateSwapStatusAny

SpecStatus == InitStatus /\ [][NextStatus]_vars

(***************************************************************************)
(* The swap registry over a day: requests served one at a time, the clock, *)
(* and the sweep of the registry.  The clock counts seconds.               *)
(***************************************************************************)
Retention == 86400

ElapsesTaken(t) == ((t - StartTime) \div Retention) + ((t - StartTime) % Retention)

\* time passes: a second, or the retention window
Elapse ==
    /\ \E d \in {1, Retention} :
          /\ ElapsesTaken(now + d) <= MaxTicks
          /\ now' = now + d
    /\ UNCHANGED <<authEnv, signed, run, tsCall, authCall, call, exec>>
    /\ UNCHANGED swapVars

\* the entry is old and in a state the sweep looks for
Swept(obj, oneDayAgo) ==
    obj.updated_at < oneDayAgo /\ obj.status \in {"confirmed", "failed"}

\* the registry as a run of the setInterval callback leaves it
SweepResult ==
    [id \in SwapIds |->
        IF swapTransactions[id] # 0 /\ Swept(heap[swapTransactions[id]], now - Retention)
        THEN 0
        ELSE swapTransactions[id]]

\* one run of the setInterval callback
Cleanup ==
    /\ swapTransactions' = SweepResult
    /\ UNCHANGED <<heap, procs, height, chain>>
    /\ UNCHANGED sendVars

NoneInFlight == \A p \in Handlers : procs[p].kind = "none"

\* a request that finds no other request in flight
SerialInitiateStart == NoneInFlight /\ InitiateStart
SerialStatusStart == NoneInFlight /\ StatusStart

NextClock ==
    \/ SerialInitiateStart \/ InitiateHeight \/ InitiateNotes \/ InitiateSend
    \/ SerialStatusStart \/ StatusNotes \/ StatusHeight \/ StatusBlock
    \/ updateSwapStatus \/ NewBlock \/ Elapse \/ Cleanup

SpecClock == InitSwap /\ [][NextClock]_vars

(***************************************************************************)
(* executeWalletCommand called with the commands parseAndBuildCommand      *)
(* builds, one call after the other on the same drafts directory.          *)
(***************************************************************************)
MaxRuns == 2

ExecInputs ==
    { <<TStr("list-notes"), TObj(<<>>)>>,
      <<TStr("list-notes-by-pubkey"), PubkeyParams("x")>>,
      <<TStr("list-notes-by-pubkey"), TObj(<<PField("pubkey", PStr(SimpleSpendWord))>>)>>,
      <<TStr("list-notes-by-pubkey"), TObj(<<PField("pubkey", PStr(<<>>))>>)>>,
      <<TStr("simple-spend"), SpendParams>> }

\* the commands the builder accepted
ExecCommands ==
    {b.cmd : b \in {c \in {parseAndBuildCommand(
                              SignedCommand(i[1], i[2], TNum(StartTime), TStr("n1")),
                              NoNotesCall) : i \in ExecInputs} : c.ok}}

InitExec ==
    /\ now = StartTime
    /\ authEnv = EnvUnset
    /\ signed = NoSigned
    /\ run = NoRun
    /\ tsCall = NoTsCall
    /\ authCall = NoAuthCall
    /\ call = NoCall
    /\ exec = NoExec
    /\ NoSwaps

ExecFrame ==
    /\ UNCHANGED <<now, authEnv, signed, run, tsCall, authCall, call>>
    /\ UNCHANGED swapVars

ExecStart ==
    /\ exec.pc \in {"idle", "done"} /\ exec.runs < MaxRuns
    /\ \E cmd \in ExecCommands : exec' = Begin(exec, cmd)
    /\ ExecFrame

ExecSingle ==
    /\ exec.pc = "single"
    /\ \E ok \in BOOLEAN : exec' = AfterSingle(exec, ok)
    /\ ExecFrame

ExecMkdir ==
    /\ exec.pc = "mkdir"
    /\ \E ok \in BOOLEAN : exec' = AfterMkdir(exec, ok)
    /\ ExecFrame

ExecDraft ==
    /\ exec.pc = "draft"
    /\ \E outcome \in DraftOutcomes : exec' = AfterDraft(exec, outcome)
    /\ ExecFrame

ExecSign ==
    /\ exec.pc = "sign"
    /\ \E ok \in BOOLEAN : exec' = AfterSign(exec, ok)
    /\ ExecFrame

ExecSend ==
    /\ exec.pc = "send"
    /\ \E ok \in BOOLEAN : exec' = AfterSend(exec, ok)
    /\ ExecFrame

ExecUnlink ==
    /\ exec.pc = "unlink"
    /\ \E ok \in BOOLEAN : exec' = AfterUnlink(exec, ok)
    /\ ExecFrame

NextExec ==
    \/ ExecStart \/ ExecSingle \/ ExecMkdir \/ ExecDraft
    \/ ExecSign \/ ExecSend \/ ExecUnlink

SpecExec == InitExec /\ [][NextExec]_vars

(***************************************************************************)
(* parseNotesOutput called on listings of one or two blocks.               *)
(***************************************************************************)
MaxBlocks == 2

AssetsTexts ==
    { <<"1", "0", "0">>, <<"1", ".", "5">>, <<".">>, <<"x">>, <<"7", "x">>, <<>> }

TextBlocks ==
    {TextBlock(n, <<"a">>, <<"b">>, m, t) :
        n \in BOOLEAN, m \in BOOLEAN, t \in AssetsTexts}

Listings == UNION {[1..k -> TextBlocks] : k \in 0..MaxBlocks}

InitParse ==
    /\ now = StartTime
    /\ authEnv = EnvUnset
    /\ signed = NoSigned
    /\ run = NoRun
    /\ tsCall = NoTsCall
    /\ authCall = NoAuthCall
    /\ call \in {[NoCall EXCEPT !.fn = "parseNotesOutput", !.output = l] : l \in Listings}
    /\ exec = NoExec
    /\ NoSwaps

CallParseNotesOutput ==
    /\ call.fn = "parseNotesOutput" /\ call.stage = "input"
    /\ call' = [call EXCEPT !.stage = "parsed", !.notes = parseNoteBlocks(call.output)]
    /\ UNCHANGED <<now, authEnv, signed, run, tsCall, authCall, exec>>
    /\ UNCHANGED swapVars

NextParse == CallParseNotesOutput

SpecParse == InitParse /\ [][NextParse]_vars

(***************************************************************************)
(* POST /swap/initiate from callers who sign with their key and from       *)
(* callers who do not hold an authorized key.  AUTHORIZED_PUBLIC_KEYS is   *)
(* pkA.                                                                    *)
(***************************************************************************)
\* the spend text under a signature of key B, sent as pkA's and as pkB's, and
\* a signature made over another text
ForgedRequests(t) ==
    { Request(SpendText(t), NaclSignDetached(SpendText(t), "B"), "pkA"),
      Request(SpendText(t), NaclSignDetached(SpendText(t), "B"), "pkB"),
      Request(SpendText(t), NaclSignDetached(SwapText(t), "A"), "pkA") }

ForgedBodies(t) == {Body("s1", AddrR, 5, 10, r) : r \in ForgedRequests(t)}

InitiateStartForged == InitiateStartWith(ForgedBodies(now))

\* a msg that is no JSON text, and the msg 'null', each signed by key A
MalformedBodies ==
    {Body("s1", AddrR, 5, 10, Request(m, NaclSignDetached(m, "A"), "pkA")) :
        m \in {NotJsonText, NullText}}

InitiateStartMalformed == InitiateStartWith(MalformedBodies)

NextInitiate ==
    \/ InitiateStart \/ InitiateStartForged \/ InitiateStartMalformed
    \/ InitiateHeight \/ InitiateNotes \/ InitiateSend

SpecInitiate == InitSwap /\ [][NextInitiate]_vars

(***************************************************************************)
(* Two swaps of the same amount to the same recipient, their requests      *)
(* served one at a time.                                                   *)
(***************************************************************************)
PairIds == {"s1", "s2"}

PairBodies(t) ==
    {Body(id, AddrR, 5, 10, Request(SpendText(t), NaclSignDetached(SpendText(t), "A"), "pkA")) :
        id \in PairIds}

InitPair ==
    /\ now = StartTime
    /\ authEnv = EnvValue(<<"pkA">>)
    /\ signed = NoSigned
    /\ run = NoRun
    /\ tsCall = NoTsCall
    /\ authCall = NoAuthCall
    /\ call = NoCall
    /\ exec = NoExec
    /\ swapTransactions = [id \in PairIds |-> 0]
    /\ heap = <<>>
    /\ procs = [p \in Handlers |-> NoHandler]
    /\ height = 0
    /\ chain = << <<>> >>

PairInitiateStart == NoneInFlight /\ InitiateStartWith(PairBodies(now))
PairStatusStart == NoneInFlight /\ StatusStartOf(PairIds)
PairUpdateSwapStatus == updateSwapStatusOf(PairIds)

NextPair ==
    \/ PairInitiateStart \/ InitiateHeight \/ InitiateNotes \/ InitiateSend
    \/ PairStatusStart \/ StatusNotes \/ StatusHeight \/ StatusBlock
    \/ PairUpdateSwapStatus \/ NewBlock

SpecPair == InitPair /\ [][NextPair]_vars

(***************************************************************************)
(* Status queries that keep coming while the chain grows.  The swap was    *)
(* registered with the notes the wallet held; the answer of the list-notes *)
(* round trip is an input.  A query that is started is served, the chain   *)
(* grows up to MaxHeight, and getHeight answers again and again.           *)
(***************************************************************************)
LiveLists == { <<>>, <<NoteOne>> }
LiveResults ==
    {Result(FALSE, ErrSignature, NoStdout, FALSE)}
    \cup {Result(TRUE, "", Stdout(FALSE, BlocksOf(l)), TRUE) :
             l \in { <<NoteOne>>, <<NoteChanged>> }}

InitLive == InitStatusOf(LiveLists)

LiveStatusStart == StatusStart
LiveNotesAnswered == StatusNotesAnsweredWith(LiveResults)
StatusHeightAnswers == StatusHeightWith({TRUE})

NextLive ==
    \/ LiveStatusStart \/ LiveNotesAnswered \/ StatusHeight \/ StatusBlock
    \/ NewBlock

SpecLive ==
    /\ InitLive
    /\ [][NextLive]_vars
    /\ WF_vars(LiveStatusStart)
    /\ WF_vars(LiveNotesAnswered)
    /\ SF_vars(StatusHeightAnswers)
    /\ WF_vars(StatusBlock)
    /\ WF_vars(NewBlock)

(***************************************************************************)
(* sanitizeForBash on short strings and on strings about as long as the    *)
(* limit, and once more on what it returned.                               *)
(***************************************************************************)
MaxInput == 3        \* characters drawn freely

InputChars == {"a", " ", "\t", ";"}
ShortInputs == UNION {[1..k -> InputChars] : k \in 0..MaxInput}
\* runs of a letter that end just before, at and after the limit
LongRuns ==
    {Repeat("a", n) : n \in {MaxSanitizedLength - 2, MaxSanitizedLength - 1,
                              MaxSanitizedLength}}
SanitizeInputs == ShortInputs \cup {r \o t : r \in LongRuns, t \in ShortInputs}

InitSanitize ==
    /\ now = StartTime
    /\ authEnv = EnvUnset
    /\ signed = NoSigned
    /\ run = NoRun
    /\ tsCall = NoTsCall
    /\ authCall = NoAuthCall
    /\ call \in {[NoCall EXCEPT !.fn = "sanitizeForBash", !.input = i] :
                    i \in SanitizeInputs}
    /\ exec = NoExec
    /\ NoSwaps

CallSanitizeForBash ==
    /\ call.fn = "sanitizeForBash" /\ call.stage = "input"
    /\ call' = [call EXCEPT !.stage = "sanitized",
                            !.sanitized = sanitizeForBash(call.input)]
    /\ UNCHANGED <<now, authEnv, signed, run, tsCall, authCall, exec>>
    /\ UNCHANGED swapVars

\* sanitizeForBash on what it returned
CallSanitizeForBashAgain ==
    /\ call.fn = "sanitizeForBash" /\ call.stage = "sanitized"
    /\ call' = [call EXCEPT !.stage = "again",
                            !.again = sanitizeForBash(call.sanitized)]
    /\ UNCHANGED <<now, authEnv, signed, run, tsCall, authCall, exec>>
    /\ UNCHANGED swapVars

NextSanitize == CallSanitizeForBash \/ CallSanitizeForBashAgain

SpecSanitize == InitSanitize /\ [][NextSanitize]_vars

(***************************************************************************)
(* Swaps and status queries, one request at a time, against a ledger whose  *)
(* getHeight may answer from a node that is behind: any height up to the   *)
(* height of the chain.                                                    *)
(***************************************************************************)
StatusHeightBehind == StatusHeightReporting(BOOLEAN, MaxHeight)

NextLedger ==
    \/ SerialInitiateStart \/ InitiateHeight \/ InitiateNotes \/ InitiateSend
    \/ SerialStatusStart \/ StatusNotes \/ StatusHeightBehind \/ StatusBlock
    \/ updateSwapStatus \/ NewBlock

SpecLedger == InitSwap /\ [][NextLedger]_vars

(***************************************************************************)
(* Status queries in flight together while time passes: the swap was       *)
(* registered, a monitoring service may mark it sent, the chain grows and  *)
(* the clock moves between the steps of the handlers.                      *)
(***************************************************************************)
NextQueries ==
    \/ LiveStatusStart \/ LiveNotesAnswered \/ StatusHeight \/ StatusBlock
    \/ updateSwapStatus \/ NewBlock \/ Elapse

SpecQueries == InitLive /\ [][NextQueries]_vars

(***************************************************************************)
(* What the claims say about a request, stated without the code's          *)
(* functions.                                                              *)
(***************************************************************************)
FieldsPresent(r) == r.msg.kind # "empty" /\ r.sig.kind # "empty" /\ r.publicKey # ""

\* sig is a 64-byte signature, made with the secret key of publicKey, over msg
SignatureCovers(r) ==
    /\ r.sig.kind = "sig64"
    /\ PubKind(r.publicKey) = "key32"
    /\ \E k \in Keys : PubOf(k) = r.publicKey /\ r.sig.key = k
    /\ r.sig.over = r.msg

KeyAllowed(keys, pk) == Len(keys) = 0 \/ \E i \in 1..Len(keys) : keys[i] = StringChars(pk)

IsJson(r) == r.msg.kind \in {"object", "null"}

HasActionAndTimestamp(r) ==
    /\ r.msg.kind = "object"
    /\ Truthy(GetT(r.msg.fields, "action"))
    /\ Truthy(GetT(r.msg.fields, "timestamp"))

WithinWindow(r, t) ==
    /\ r.msg.kind = "object"
    /\ GetT(r.msg.fields, "timestamp").kind = "num"
    /\ GetT(r.msg.fields, "timestamp").n >= t - Window
    /\ GetT(r.msg.fields, "timestamp").n <= t + Window

\* C1: the external wallet tool is started in an execution of
\* processSignedCommand only if msg, sig and publicKey were present, the
\* signature verifies over msg under publicKey, publicKey is authorized, msg
\* parses as JSON with action and timestamp, and the timestamp is fresh.
C1_InvokedOnlyAfterAllChecks ==
    (run.done /\ run.result.invoked) =>
        /\ FieldsPresent(run.req)
        /\ SignatureCovers(run.req)
        /\ KeyAllowed(run.keys, run.req.publicKey)
        /\ IsJson(run.req)
        /\ HasActionAndTimestamp(run.req)
        /\ WithinWindow(run.req, run.at)

\* a request passed every check and the tool was started
C1_Witness == run.done /\ run.result.invoked /\ run.result.success

\* the error the claimed order of checks yields: "" when no check fails
ClaimedError(r, t, keys) ==
    IF ~FieldsPresent(r) THEN ErrMissing
    ELSE IF ~SignatureCovers(r) THEN ErrSignature
    ELSE IF ~KeyAllowed(keys, r.publicKey) THEN ErrUnauthorized
    ELSE IF ~IsJson(r) THEN ErrFormat
    ELSE IF ~HasActionAndTimestamp(r) THEN ErrFields
    ELSE IF ~WithinWindow(r, t) THEN ErrTimestamp
    ELSE ""

SixErrors == {ErrMissing, ErrSignature, ErrUnauthorized, ErrFormat, ErrFields, ErrTimestamp}

\* C2: the checks are applied in the order missing fields, signature,
\* authorization, JSON parse, required fields, freshness; the error returned is
\* the one of the earliest failing check, and the six messages are distinct.
C2_ErrorOfEarliestFailingCheck ==
    /\ Cardinality(SixErrors) = 6
    /\ run.done =>
          LET claimed == ClaimedError(run.req, run.at, run.keys)
          IN  claimed # "" => run.result.error = claimed

\* C2, for every msg but the JSON text null: the order holds
C2_OrderExceptNull ==
    (run.done /\ run.req.msg.kind # "null") =>
        LET claimed == ClaimedError(run.req, run.at, run.keys)
        IN  claimed # "" => run.result.error = claimed

\* C3: the request that createSignedCommand returns (server or client) passes
\* verifySignature(msg, sig, publicKey).
C3_SignedCommandVerifies ==
    (signed.by \in {"server", "client"} /\ ~signed.threw) =>
        verifySignature(signed.req.msg, signed.req.sig, signed.req.publicKey)

\* C4: two envelopes that differ in any field, a value nested in params
\* included, are signed over different bytes.
C4_DifferentEnvelopesDifferentBytes ==
    [][(/\ signed.by \in {"server", "client"} /\ ~signed.threw
        /\ signed'.by \in {"server", "client"} /\ ~signed'.threw
        /\ signed'.envelope # signed.envelope)
       => signed'.bytes # signed.bytes]_vars

\* C5: an initiateSwap for a swap_id that has a registry entry never replaces
\* that entry, however the requests with the same swap_id interleave.
C5_EntryNeverOverwritten ==
    [][\A id \in SwapIds :
          swapTransactions[id] # 0 => swapTransactions'[id] = swapTransactions[id]]_vars

\* the status the registry reports for a swap_id
StatusOf(registry, objects, id) == objects[registry[id]].status

\* C6: once the swap of a swap_id is sent-confirmed or failed, no step of an
\* initiateSwap or getSwapStatus handler changes its status.
C6_TerminalStatusKept ==
    [][procs' # procs =>
          \A id \in SwapIds :
              (/\ swapTransactions[id] # 0
               /\ StatusOf(swapTransactions, heap, id) \in {"sent-confirmed", "failed"})
              => (/\ swapTransactions'[id] # 0
                  /\ StatusOf(swapTransactions', heap', id)
                        = StatusOf(swapTransactions, heap, id))]_vars

\* a block from the swap's initial height to currentHeight pays the swap's
\* amount to its recipient
Settled(obj, currentHeight) ==
    \E h \in obj.initial_block_height..currentHeight :
        \E i \in 1..Len(chain[h + 1]) : MatchesSwap(chain[h + 1][i], obj)

\* C7: getSwapStatus does not set a swap to failed while a block between the
\* swap's initial height and the height the handler read holds a transaction
\* with an output of the swap's amount to the swap's recipient.
C7_NoTimeoutWhileSettled ==
    [][\A p \in Handlers :
          (/\ procs[p].kind = "status" /\ procs[p].pc = "block"
           /\ procs'[p].kind = "none"
           /\ heap[procs[p].swap].status # "failed"
           /\ heap'[procs[p].swap].status = "failed"
           /\ heap'[procs[p].swap].error = ErrNotConfirmed)
          => ~Settled(heap[procs[p].swap], procs[p].currentHeight)]_vars

\* the request of the body verifies over its msg, under an authorized key, with
\* action and a fresh timestamp
ValidSwapBody(body, t, keys) ==
    /\ ~BodyFieldMissing(body)
    /\ isValidNockchainAddress(body.recipient)
    /\ SignatureCovers(Request(body.msg, body.sig, body.publicKey))
    /\ KeyAllowed(keys, body.publicKey)
    /\ HasActionAndTimestamp(Request(body.msg, body.sig, body.publicKey))
    /\ WithinWindow(Request(body.msg, body.sig, body.publicKey), t)

\* C8: an initiateSwap with an unused swap_id and a request that is validly
\* signed over its msg does not mark the swap failed for a signature error.
C8_ValidSwapNotFailedForSignature ==
    [][\A p \in Handlers :
          (/\ procs[p].kind = "initiate" /\ procs[p].pc = "send"
           /\ procs'[p].kind = "none"
           /\ ValidSwapBody(procs[p].body, now, AUTHORIZED_PUBLIC_KEYS(authEnv)))
          => ~(/\ heap'[procs[p].swap].status = "failed"
               /\ heap'[procs[p].swap].error = ErrSignature)]_vars

\* C8, for a caller who signs the text the handler will send on: the spend
\* reaches the executor and the swap stays as it was
C8_SpendTextNotFailedForSignature ==
    [][\A p \in Handlers :
          (/\ procs[p].kind = "initiate" /\ procs[p].pc = "send"
           /\ procs'[p].kind = "none"
           /\ procs[p].body.msg = SpendText(now))
          => heap'[procs[p].swap].error # ErrSignature]_vars

\* the run got past the six checks of processSignedCommand
PassedChecks(r) == r.done /\ r.result.error \notin (SixErrors \cup {ErrNull})

\* C11: a request that passed every check passes every check again when the
\* identical request is sent again while its timestamp is within the window;
\* nothing of the first call, the nonce included, is remembered.
C11_ReplayPassesAgain ==
    [][(/\ PassedChecks(run) /\ run'.done /\ run' # run /\ run'.req = run.req
        /\ WithinWindow(run'.req, run'.at))
       => PassedChecks(run')]_vars

\* the identical request was sent twice and the wallet tool was started twice
C11_Witness ==
    /\ run.calls = 2 /\ run.invocations = 2 /\ run.result.success
    /\ run.at > GetT(run.req.msg.fields, "timestamp").n

\* sig or publicKey is a string that is no base58, or decodes to a wrong length
DecodeFails(r) ==
    \/ r.sig.kind \in {"notb58", "badlen"}
    \/ PubKind(r.publicKey) \in {"notb58", "badlen"}

\* C12: a request whose sig or publicKey does not decode is answered with
\* {success: false, error: 'Invalid signature'}: the decoder's exception is
\* caught in verifySignature, and nothing is executed.
C12_DecodeFailureIsInvalidSignature ==
    (run.done /\ FieldsPresent(run.req) /\ DecodeFails(run.req)) =>
        /\ ~run.result.success
        /\ run.result.error = ErrSignature
        /\ ~run.result.invoked

\* a sig with a character outside base58 was answered with 'Invalid signature'
C12_Witness ==
    /\ run.done /\ run.req.sig.kind = "notb58" /\ PubKind(run.req.publicKey) = "key32"
    /\ run.result.error = ErrSignature

(***************************************************************************)
(* Claims about the command builder and the coin selector (SpecSpend).     *)
(***************************************************************************)
\* a simple-spend with an object for params went through parseAndBuildCommand
SpendCall ==
    /\ call.fn = "parseAndBuildCommand" /\ call.stage = "built"
    /\ IsSimpleSpend(call.signedCommand)
    /\ GetT(call.signedCommand, "params").kind = "obj"
ParamOf(key) == GetP(GetT(call.signedCommand, "params").o, key)

RECURSIVE DecimalText(_)
DecimalText(n) ==
    IF n < 10 THEN <<Digits[n + 1]>>
    ELSE DecimalText(n \div 10) \o <<Digits[(n % 10) + 1]>>

\* the value is the integer n, as a number or written in digits
ReadsAs(v, n) == v = PNum(n) \/ v = PStr(DecimalText(n))

LengthOk == Len(ParamOf("recipients").rs) \in 1..50
CountsOk ==
    \A i \in 1..Len(ParamOf("recipients").rs) :
        LET r == ParamOf("recipients").rs[i]
        IN  r.hasCount /\ r.whole /\ r.count \in 1..999
AddressesOk ==
    \A i \in 1..Len(ParamOf("recipients").rs) :
        LET r == ParamOf("recipients").rs[i]
        IN  /\ r.hasAddress /\ r.address.b58
            /\ r.address.len \in 150..156 /\ r.address.dec \in 110..115
FeeOk == \E n \in 1..1000 : ReadsAs(ParamOf("fee"), n)

\* C13: a simple-spend is refused for its recipients list exactly when the
\* list's length is outside 1..50, for a recipient exactly when a count is not
\* an integer in 1..999 (or an address is not valid), for its fee exactly when
\* the fee is not an integer in 1..1000; and whenever one of the three is
\* violated no command is built.
C13_ValidationBoundaries ==
    SpendCall =>
        /\ (call.built.error \in {"Invalid recipients: must be non-empty array",
                                  "Too many recipients: maximum 50 allowed"})
               <=> ~LengthOk
        /\ LengthOk =>
               ((call.built.error = "Invalid count or address at recipient")
                    <=> ~(CountsOk /\ AddressesOk))
        /\ (LengthOk /\ CountsOk /\ AddressesOk) =>
               ((call.built.error = "Invalid fee: must be integer between 1-1000")
                    <=> ~FeeOk)
        /\ ~(LengthOk /\ CountsOk /\ FeeOk) =>
               (~call.built.ok /\ call.built.cmd = NoCommand /\ ~call.built.invoked)

\* 50 recipients with count 999 and a fee of 1000 are accepted
C13_Witness ==
    /\ SpendCall /\ call.built.ok
    /\ Len(ParamOf("recipients").rs) = 50
    /\ ParamOf("recipients").rs[1].count = 999
    /\ ParamOf("fee") = PNum(1000)

\* C14: every validated simple-spend record has as many gifts as recipients
C14_GiftsMatchRecipients ==
    (SpendCall /\ call.validated.ok) =>
        Len(call.validated.gifts) = Len(call.validated.recipients)

\* ... on the path with explicit gifts
C14_ExplicitGiftsMatchRecipients ==
    (SpendCall /\ call.validated.ok /\ ParamOf("amountNock") = PUndef) =>
        Len(call.validated.gifts) = Len(call.validated.recipients)

\* ... on the path that selects the notes for an amount
C14_SelectedGiftsMatchRecipients ==
    (SpendCall /\ call.validated.ok /\ ParamOf("amountNock") # PUndef) =>
        Len(call.validated.gifts) = Len(call.validated.recipients)

\* the earlier copy's validateSimpleSpendParams does keep the two lengths equal
C14_EarlierCopyGiftsMatchRecipients ==
    (call.fn = "validateSimpleSpendParams" /\ call.validated.ok) =>
        Len(call.validated.gifts) = Len(call.validated.recipients)

\* parseAndBuildCommand returned a command line
BuiltCall == call.fn = "parseAndBuildCommand" /\ call.stage = "built" /\ call.built.ok

\* the text is not empty and holds none of ; | & $ ` \ ' "
SafeText(cs) ==
    /\ cs # <<>>
    /\ \A k \in 1..Len(cs) : cs[k] \notin {";", "|", "&", "$", "`", "\\", "'", "\""}

NamesSafe(names) ==
    \A i \in 1..Len(names) : \A j \in 1..Len(names[i]) : SafeText(names[i][j])

\* C15: every note name and every pubkey that a built command line holds is
\* free of the shell's special characters and is not empty
C15_CommandStringsSanitized ==
    BuiltCall =>
        /\ NamesSafe(call.built.cmd.names)
        /\ (call.built.cmd.tool = "list-notes-by-pubkey" => SafeText(call.built.cmd.pubkey))

\* the names a caller writes are sanitized, and an empty one is refused
C15_ExplicitNamesSanitized ==
    (BuiltCall /\ SpendCall /\ ParamOf("amountNock") = PUndef) =>
        NamesSafe(call.built.cmd.names)

\* the names taken from the selected notes
C15_SelectedNamesSanitized ==
    (BuiltCall /\ SpendCall /\ ParamOf("amountNock") # PUndef) =>
        NamesSafe(call.built.cmd.names)

\* the pubkey holds no special character
C15_PubkeyCharactersRemoved ==
    (BuiltCall /\ call.built.cmd.tool = "list-notes-by-pubkey") =>
        \A k \in 1..Len(call.built.cmd.pubkey) :
            call.built.cmd.pubkey[k] \notin DangerousChars

\* a pubkey that is empty after sanitization is refused
C15_EmptyPubkeyRefused ==
    (BuiltCall /\ call.built.cmd.tool = "list-notes-by-pubkey") =>
        call.built.cmd.pubkey # <<>>

\* getNotesEqualTo was called and returned or threw
SelectCall == call.fn = "getNotesEqualTo" /\ call.stage \in {"selected", "gifts"}

RECURSIVE TotalOf(_)
TotalOf(notes) == IF notes = <<>> THEN 0 ELSE notes[1].assets + TotalOf(Tail(notes))

\* amountNock * 65536 for the amounts n and n + 1/2
AmountAssets(a) == IF a.whole THEN a.n * 65536 ELSE (a.n * 65536) + 32768

Occurrences(x, notes) == Cardinality({i \in 1..Len(notes) : notes[i] = x})
SubMultiset(part, whole) ==
    \A i \in 1..Len(part) : Occurrences(part[i], part) <= Occurrences(part[i], whole)

\* C16: with required = amountNock * 65536 + 10, getNotesEqualTo returns some
\* of the available notes with a total of at least required when all the
\* available notes together reach required, and throws 'Insufficient balance'
\* when they do not
C16_SelectionSufficient ==
    SelectCall =>
        IF TotalOf(call.availableNotes) >= AmountAssets(call.amountNock) + 10
        THEN /\ ~call.selection.threw
             /\ SubMultiset(call.selection.selectedNotes, call.availableNotes)
             /\ TotalOf(call.selection.selectedNotes) >= AmountAssets(call.amountNock) + 10
             /\ call.selection.totalAssets = TotalOf(call.selection.selectedNotes)
        ELSE call.selection.threw /\ call.selection.error = "Insufficient balance"

\* two of three notes are taken, the first of them not enough alone
C16_Witness ==
    /\ SelectCall /\ ~call.selection.threw
    /\ Len(call.availableNotes) = 3 /\ Len(call.selection.selectedNotes) = 2
    /\ call.selection.selectedNotes[1].assets < AmountAssets(call.amountNock) + 10

\* the empty note set is refused
C16_EmptyRefused ==
    (SelectCall /\ call.availableNotes = <<>>) => call.selection.threw

RECURSIVE SumOf(_)
SumOf(numbers) == IF numbers = <<>> THEN 0 ELSE numbers[1] + SumOf(Tail(numbers))

\* a simple-spend by amount passed validation
AmountSpend == SpendCall /\ call.validated.ok /\ ParamOf("amountNock") # PUndef

\* C17: the notes selected for a validated simple-spend by amount hold at
\* least amountNock * 65536 + fee * 65536 assets, which is the sum of the gifts
C17_SelectionCoversAmountAndFee ==
    AmountSpend =>
        /\ TotalOf(call.validated.selectedNotes)
               >= AmountAssets(Number(ParamOf("amountNock"))) + (call.validated.fee * 65536)
        /\ TotalOf(call.validated.selectedNotes) >= SumOf(call.validated.gifts)

\* what the selection does cover: the amount and 10 assets
C17_SelectionCoversAmountAndTen ==
    AmountSpend =>
        TotalOf(call.validated.selectedNotes)
            >= AmountAssets(Number(ParamOf("amountNock"))) + 10

\* buildGiftsArray was called on a selection of getNotesEqualTo
GiftsCall == call.fn = "getNotesEqualTo" /\ call.stage = "gifts"

\* C18: the gifts built from a selection of getNotesEqualTo sum to exactly
\* amount * 65536 + fee * 65536, and there is one gift for each selected note
C18_GiftsSumToAmountAndFee ==
    GiftsCall =>
        /\ SumOf(call.gifts) = AmountAssets(call.amountNock) + (call.fee * 65536)
        /\ Len(call.gifts) = Len(call.selection.selectedNotes)

\* two notes selected: the first is given whole, the second gives the rest
C18_Witness ==
    /\ GiftsCall /\ Len(call.gifts) = 2
    /\ call.gifts[1] = call.selection.selectedNotes[1].assets
    /\ call.gifts[2] = (AmountAssets(call.amountNock) + (call.fee * 65536)) - call.gifts[1]
    /\ call.fee = 1000

(***************************************************************************)
(* Claims about the status query.                                          *)
(***************************************************************************)
\* every note of part is among the notes of whole, by names and assets
NoteSubset(part, whole) ==
    \A i \in 1..Len(part) : \E j \in 1..Len(whole) :
        /\ whole[j].first_name = part[i].first_name
        /\ whole[j].last_name = part[i].last_name
        /\ whole[j].assets = part[i].assets

\* the notes of whole that are not among the notes of part
NotesBeyond(part, whole) == SelectSeq(whole, LAMBDA n : ~NoteSubset(<<n>>, part))

ListingSucceeded(r) == r.success /\ ~r.output.empty

\* C19: the note check of a status query moves a pending swap to sent-pending
\* exactly when the listing succeeded and notes_before is not a subset of the
\* notes listed; it then records the listed notes that are not in notes_before
\* as change_utxo; otherwise the swap is left as it was
C19_SentWhenNotesSpent ==
    [][\A p \in Handlers :
          (/\ procs[p].kind = "status" /\ procs[p].pc = "notes" /\ procs'[p] # procs[p]
           /\ heap[procs[p].swap].status = "pending")
          => LET old == heap[procs[p].swap]
                 new == heap'[procs[p].swap]
                 current == parseNotesOutput(call'.listing.output.blocks)
                 spent == /\ ListingSucceeded(call'.listing)
                          /\ ~NoteSubset(old.notes_before, current)
             IN  /\ (new.status = "sent-pending") <=> spent
                 /\ spent =>
                       /\ NotesBeyond(old.notes_before, current) # <<>>
                             => new.change_utxo = NotesBeyond(old.notes_before, current)
                       /\ NotesBeyond(old.notes_before, current) = <<>>
                             => new.change_utxo = old.change_utxo
                 /\ ~spent => new = old]_vars

\* a swap moved to sent-pending with a changed note recorded as change_utxo
C19_Witness ==
    /\ heap[1].status = "sent-pending"
    /\ heap[1].notes_before = <<NoteOne>>
    /\ heap[1].change_utxo = <<NoteChanged>>
    /\ ListingSucceeded(call.listing)

\* with the server's own signer the round trip never succeeds, and the note
\* check of a status query leaves every swap as it was
C19_NoteCheckChangesNothing ==
    [][\A p \in Handlers :
          (procs[p].kind = "status" /\ procs[p].pc = "notes" /\ procs'[p] # procs[p])
          => heap' = heap]_vars

\* the block holds a transaction with this id that pays amount to recipient
PaysIn(transactions, id, recipient, amount) ==
    \E k \in 1..Len(transactions) :
        /\ transactions[k].id = id
        /\ \E o \in 1..Len(transactions[k].outputs) :
              /\ transactions[k].outputs[o].address = recipient
              /\ transactions[k].outputs[o].amount = amount

C21_TimeoutAtThreeBlocks ==
    [][\A p \in Handlers :
          (procs[p].kind = "status" /\ procs'[p] # procs[p])
          => LET old == heap[procs[p].swap]
                 new == heap'[procs[p].swap]
                 since == procs[p].currentHeight - old.initial_block_height
             IN  /\ (/\ procs[p].pc = "block" /\ procs'[p].kind = "none"
                     /\ old.status = "sent-pending" /\ new.status # "sent-confirmed"
                     /\ since >= 3)
                    => (/\ new.status = "failed"
                        /\ new.error = "Transaction not confirmed after 3 blocks")
                 /\ (procs[p].pc # "block" \/ since <= 2)
                    => (new.status = "failed" => old.status = "failed")]_vars

\* a swap registered at height 0 that timed out when the height was 3
C21_Witness ==
    \E i \in 1..Len(heap) :
        /\ heap[i].status = "failed"
        /\ heap[i].error = "Transaction not confirmed after 3 blocks"
        /\ heap[i].initial_block_height = 0 /\ height = 3

\* an edge of the swap state machine
StatusEdge(a, b) ==
    \/ a = "pending" /\ b = "sent-pending"
    \/ a = "sent-pending" /\ b = "sent-confirmed"
    \/ a \in {"pending", "sent-pending"} /\ b = "failed"

\* C22: the status of the swap registered under a swap_id is one of pending,
\* sent-pending, sent-confirmed, failed, and it changes only along an edge of
\* the state machine
C22_StatusFollowsEdges ==
    [][\A id \in SwapIds :
          swapTransactions[id] # 0
          => /\ swapTransactions'[id] # 0
             /\ StatusOf(swapTransactions', heap', id)
                   \in {"pending", "sent-pending", "sent-confirmed", "failed"}
             /\ \/ StatusOf(swapTransactions', heap', id)
                      = StatusOf(swapTransactions, heap, id)
                \/ StatusEdge(StatusOf(swapTransactions, heap, id),
                              StatusOf(swapTransactions', heap', id))]_vars

\* ... for a swap object, whatever the registry holds
C22_ObjectStatusFollowsEdges ==
    [][\A i \in 1..Len(heap) :
          heap'[i].status = heap[i].status
          \/ StatusEdge(heap[i].status, heap'[i].status)]_vars

(***************************************************************************)
(* Claims about the registry over time (SpecClock).                        *)
(***************************************************************************)
\* a handler of initiateSwap or getSwapStatus took the step
HandlerStep == procs' # procs

\* what every status change does to the time stamps
StampsTime ==
    \A i \in 1..Len(heap) :
        /\ heap'[i].status # heap[i].status => heap'[i].updated_at = now
        /\ heap'[i].updated_at >= heap[i].updated_at
        /\ heap'[i].created_at = heap[i].created_at

OldTerminal(obj) ==
    obj.status \in {"sent-confirmed", "failed"} /\ obj.updated_at < now - Retention

\* C24: whenever the sweep runs, the registry it leaves holds no swap that is
\* terminal (sent-confirmed or failed) and was updated more than 24 hours
\* ago, and every swap it deletes is such a swap
C24_SweepRemovesOldTerminal ==
    \A id \in SwapIds :
        swapTransactions[id] # 0
        => /\ SweepResult[id] # 0 => ~OldTerminal(heap[SweepResult[id]])
           /\ SweepResult[id] = 0 => OldTerminal(heap[swapTransactions[id]])

\* C24, the half that holds: the sweep deletes only terminal swaps that were
\* updated more than 24 hours ago
C24_SweepDeletesOnlyOldTerminal ==
    [][\A id \in SwapIds :
          (swapTransactions[id] # 0 /\ swapTransactions'[id] = 0)
          => OldTerminal(heap[swapTransactions[id]])]_vars

\* C24, the failed swaps: the sweep leaves no failed swap that was updated
\* more than 24 hours ago
C24_SweepRemovesOldFailed ==
    \A id \in SwapIds :
        SweepResult[id] # 0
        => ~(heap[SweepResult[id]].status = "failed" /\ OldTerminal(heap[SweepResult[id]]))

\* the sweep deleted a swap
C24_Deleted ==
    \E i \in 1..Len(heap) :
        /\ OldTerminal(heap[i])
        /\ \A id \in SwapIds : swapTransactions[id] # i

(***************************************************************************)
(* Claims about the executor (SpecExec).                                   *)
(***************************************************************************)
ExecDone == exec.pc = "done"
StepAt(i, step) == exec.log[i].step = step
RemovalFailed == \E i \in 1..Len(exec.log) : StepAt(i, "unlink") /\ ~exec.log[i].ok

\* C25: when executeCompleteTransaction has finished, returning or throwing
\* at any step, and the removal of the file did not fail, the draft this
\* execution created is not in the drafts directory
C25_NoDraftRemains ==
    (ExecDone /\ ~RemovalFailed) => exec.runs \notin exec.files

\* C25, the executions that found the draft's name: once the name is found
\* and the removal does not fail, the draft is gone when the execution ends
C25_NamedDraftRemoved ==
    (ExecDone /\ exec.draftPath # 0 /\ ~RemovalFailed) => exec.runs \notin exec.files

\* a spend that failed at send and whose draft was removed
C25_RemovedAfterFailedSend ==
    /\ ExecDone /\ exec.threw /\ exec.runs \notin exec.files
    /\ \E i \in 1..Len(exec.log) : StepAt(i, "send") /\ ~exec.log[i].ok

\* C25, the executions whose simple-spend invocation succeeded: when the
\* execution has finished and the removal did not fail, its draft is gone
C25_NoDraftRemainsAfterDraftStep ==
    (/\ ExecDone /\ ~RemovalFailed
     /\ \E i \in 1..Len(exec.log) : StepAt(i, "draft") /\ exec.log[i].ok)
    => exec.runs \notin exec.files

InProtocol == \E i \in 1..Len(exec.log) : StepAt(i, "mkdir")
StepFailed(i) == ~StepAt(i, "unlink") /\ ~exec.log[i].ok
NameNotFound(i) == StepAt(i, "draft") /\ exec.log[i].ok /\ exec.log[i].draft = 0

\* C26: send-tx runs only after a sign-tx of the same draft that completed
\* without error, sign-tx only after a draft step that completed and whose
\* output named the draft; after a step that failed (or a name not found) no
\* later step of the protocol runs and the execution ends throwing
\* 'Transaction execution failed'; when sign or send failed, the removal of
\* the draft is attempted before the execution ends
C26_StepsInOrder ==
    \A i \in 1..Len(exec.log) :
        /\ StepAt(i, "send")
           => \E j \in 1..(i - 1) :
                 /\ StepAt(j, "sign") /\ exec.log[j].ok
                 /\ exec.log[j].draft = exec.log[i].draft
        /\ StepAt(i, "sign")
           => /\ exec.log[i].draft # 0
              /\ \E j \in 1..(i - 1) :
                    /\ StepAt(j, "draft") /\ exec.log[j].ok
                    /\ exec.log[j].draft = exec.log[i].draft
        /\ (InProtocol /\ (StepFailed(i) \/ NameNotFound(i)))
           => /\ \A k \in (i + 1)..Len(exec.log) : StepAt(k, "unlink")
              /\ ExecDone => (exec.threw /\ exec.error = ErrTransaction)
        /\ (StepFailed(i) /\ (StepAt(i, "sign") \/ StepAt(i, "send")) /\ ExecDone)
           => \E k \in (i + 1)..Len(exec.log) : StepAt(k, "unlink")

\* a sign-tx failed, the removal was attempted, and the execution threw
C26_Witness ==
    /\ ExecDone /\ exec.threw /\ exec.error = ErrTransaction
    /\ \E i \in 1..Len(exec.log) :
          /\ StepAt(i, "sign") /\ ~exec.log[i].ok
          /\ i < Len(exec.log) /\ StepAt(i + 1, "unlink")

\* a spend went through the three steps and returned
C26_SentAfterSigned ==
    /\ ExecDone /\ ~exec.threw
    /\ \E i \in 1..Len(exec.log) : StepAt(i, "send") /\ exec.log[i].ok

\* C27: an accepted command other than simple-spend (list-notes, or
\* list-notes-by-pubkey with any accepted pubkey) is executed by exactly one
\* invocation and never enters the three-step protocol; the protocol is
\* entered exactly for simple-spend
C27_ProtocolOnlyForSimpleSpend ==
    /\ exec.pc # "idle" => (InProtocol \/ exec.pc = "mkdir" <=> exec.cmd.tool = "simple-spend")
    /\ (ExecDone /\ exec.cmd.tool # "simple-spend")
       => (Len(exec.log) = 1 /\ StepAt(1, "exec"))

\* C27, the commands whose text does not hold the word simple-spend outside
\* the action: one invocation, no protocol
C27_OneInvocationWithoutTheWord ==
    (ExecDone /\ ~IncludesSimpleSpend(exec.cmd))
    => (Len(exec.log) = 1 /\ StepAt(1, "exec"))

\* a list-notes-by-pubkey command was run as a spend
C27_PubkeyEntersProtocol ==
    ExecDone /\ exec.cmd.tool = "list-notes-by-pubkey" /\ InProtocol

\* C28: loadSigningKey fails when the key file does not hold exactly 32
\* bytes, and with a file of exactly 32 bytes it returns a key pair, so that
\* createSignedCommand signs
C28_KeyLoadsExactlyAt32Bytes ==
    signed.by = "server"
    => /\ signed.keyLength # SigningKeyLength => signed.threw
       /\ signed.keyLength = SigningKeyLength => ~signed.threw

\* C28, the half that holds: a key file of another length makes
\* createSignedCommand throw
C28_OtherLengthFails ==
    (signed.by = "server" /\ signed.keyLength # SigningKeyLength) => signed.threw

\* a key file of 64 bytes was refused
C28_LongKeyRefused ==
    signed.by = "server" /\ signed.keyLength = 64 /\ signed.threw

(***************************************************************************)
(* Claims about the note parser (SpecParse).                               *)
(***************************************************************************)
Parsed == call.fn = "parseNotesOutput" /\ call.stage = "parsed"

\* the text after the assets marker starts with digits and dots, a digit
\* among them
YieldsNumber(text) ==
    \E i \in 1..Len(text) :
        /\ text[i] \in {"0", "1", "2", "3", "4", "5", "6", "7", "8", "9"}
        /\ \A j \in 1..(i - 1) :
              text[j] \in {"0", "1", "2", "3", "4", "5", "6", "7", "8", "9", "."}

Recognized(b) == b.hasName /\ b.hasAssets /\ YieldsNumber(b.assetsText)

\* C29: every record parseNotesOutput returns has a first name, a last name
\* and assets that are a number, and the records are those of the blocks
\* whose name marker and assets marker were recognized and whose assets text
\* yields a number: any other block produces no record
C29_RecordsOnlyFromCompleteBlocks ==
    Parsed =>
        /\ \A i \in 1..Len(call.notes) :
              /\ call.notes[i].first_name # <<>> /\ call.notes[i].last_name # <<>>
              /\ call.notes[i].assets.finite
        /\ Len(call.notes) = Len(SelectSeq(call.output, Recognized))

\* C29, the markers: every record has both names, and a block whose name
\* marker or assets marker is not recognized produces no record
C29_RecordsOnlyFromMarkedBlocks ==
    Parsed =>
        /\ \A i \in 1..Len(call.notes) :
              call.notes[i].first_name # <<>> /\ call.notes[i].last_name # <<>>
        /\ Len(call.notes) <= Len(SelectSeq(call.output, LAMBDA b : b.hasName /\ b.hasAssets))

\* a record whose assets are not a number
C29_RecordWithoutNumber ==
    Parsed /\ \E i \in 1..Len(call.notes) : ~call.notes[i].assets.finite

(***************************************************************************)
(* Claims about the requests initiateSwap acts on (SpecInitiate).          *)
(***************************************************************************)
BodyRequest(body) == Request(body.msg, body.sig, body.publicKey)

\* the signature covers msg under publicKey, the key is authorized and the
\* timestamp is within the window
Authentic(body, t, keys) ==
    /\ SignatureCovers(BodyRequest(body))
    /\ KeyAllowed(keys, body.publicKey)
    /\ WithinWindow(BodyRequest(body), t)

\* C30: initiateSwap creates a registry entry only for a request whose
\* signature is valid, whose key is authorized and whose timestamp is fresh:
\* the step of a handler that puts an entry into the registry is the step of
\* a handler whose request is such a request
C30_EntryOnlyForAuthenticRequest ==
    [][\A p \in Handlers :
          (/\ procs[p].kind = "initiate" /\ procs'[p] # procs[p]
           /\ swapTransactions'[procs[p].body.swap_id] # swapTransactions[procs[p].body.swap_id])
          => Authentic(procs[p].body, now, AUTHORIZED_PUBLIC_KEYS(authEnv))]_vars

\* C30, the end of the request: when the handler of a request with an invalid
\* signature or an unauthorized key has answered, the registry has no entry
\* for its swap_id
C30_NoEntryLeftByForgedRequest ==
    [][\A p \in Handlers :
          (/\ procs[p].kind = "initiate" /\ procs'[p].kind = "none"
           /\ procs[p].body \in ForgedBodies(now))
          => swapTransactions'[procs[p].body.swap_id] = 0]_vars

\* C30, the spend: the handler's spend command gets past the checks of
\* processSignedCommand only for a request whose signature is valid, whose
\* key is authorized and whose timestamp is fresh
C30_SpendOnlyForAuthenticRequest ==
    [][\A p \in Handlers :
          (/\ procs[p].kind = "initiate" /\ procs[p].pc = "send" /\ procs'[p].kind = "none"
           /\ heap[procs[p].swap].status # "failed"
           /\ heap'[procs[p].swap].status # "failed")
          => Authentic(procs[p].body, now, AUTHORIZED_PUBLIC_KEYS(authEnv))]_vars

\* the spend of an authentic request went through and the swap is pending
C30_SpendWentThrough ==
    /\ swapTransactions["s1"] # 0
    /\ heap[swapTransactions["s1"]].status = "pending"
    /\ \A p \in Handlers : procs[p].kind = "none"

\* the handler p of initiateSwap answers in this step
InitiateAnswers(p) == procs[p].kind = "initiate" /\ procs'[p].kind = "none"

\* the entry this step of p leaves for the swap it registered, if it left one
FailedWithError(obj) == obj.status = "failed" /\ obj.error # ""

\* C31: when initiateSwap answers with an error, the entry this call created
\* is either not there or has status failed with the error recorded.  The
\* handler answers an error when it ends before the spend (at the height
\* query or at the registration) and when the spend fails; when the spend
\* succeeds it leaves the registry as it is.
C31_ErrorLeavesNoPendingEntry ==
    [][\A p \in Handlers :
          InitiateAnswers(p)
          => /\ procs[p].pc \in {"getHeight", "notes"}
                => \/ heap' = heap
                   \/ FailedWithError(heap'[Len(heap')])
             /\ procs[p].pc = "send"
                => \/ heap' = heap
                   \/ FailedWithError(heap'[procs[p].swap])]_vars

\* C31, the failed spend: when the spend of the handler fails, the entry the
\* call created has status failed and the error recorded
C31_FailedSpendMarksEntry ==
    [][\A p \in Handlers :
          (InitiateAnswers(p) /\ procs[p].pc = "send")
          => (heap' = heap \/ FailedWithError(heap'[procs[p].swap]))]_vars

(***************************************************************************)
(* Claims about two swaps (SpecPair).                                      *)
(***************************************************************************)
\* C32: two distinct swaps of the registry in status sent-confirmed never
\* carry the same tx_id
C32_OneTransactionOneSwap ==
    \A a, b \in DOMAIN swapTransactions :
        (/\ a # b /\ swapTransactions[a] # 0 /\ swapTransactions[b] # 0
         /\ heap[swapTransactions[a]].status = "sent-confirmed"
         /\ heap[swapTransactions[b]].status = "sent-confirmed")
        => heap[swapTransactions[a]].tx_id # heap[swapTransactions[b]].tx_id

(***************************************************************************)
(* Claims about the progress of a swap (SpecLive).                         *)
(***************************************************************************)
Terminal(obj) == obj.status \in {"sent-confirmed", "failed"}

\* C33: with status queries coming, the height and block queries answering
\* and the chain at least 3 blocks past the swap's initial height, a
\* sent-pending swap reaches sent-confirmed or failed
C33_SentPendingEnds ==
    \A i \in {1} :
        (/\ heap[i].status = "sent-pending"
         /\ height >= heap[i].initial_block_height + ConfirmationTimeout)
        ~> Terminal(heap[i])

\* a swap that was seen sent by its notes timed out at height 3
C33_Witness ==
    /\ heap[1].status = "failed" /\ heap[1].error = ErrNotConfirmed
    /\ Len(heap[1].notes_before) > 0
    /\ height = heap[1].initial_block_height + ConfirmationTimeout

\* every list-notes round trip answered so far succeeded
NotesAnswered == call.fn = "processSignedCommand" => call.listing.success

\* C34: with status queries coming, every note, height and block query
\* answering and the chain growing, a registered swap reaches sent-confirmed
\* or failed
C34_EverySwapEnds ==
    ([]NotesAnswered) => <>Terminal(heap[1])

\* C34, the swaps whose snapshot is empty: they reach a terminal state
C34_EmptySnapshotEnds ==
    ([]NotesAnswered) => <>(heap[1].notes_before = <<>> => Terminal(heap[1]))

\* C34, the swaps that were seen sent: once the notes of the snapshot are
\* gone from the listing the swap reaches a terminal state
C34_SentSwapEnds ==
    (heap[1].status = "sent-pending") ~> Terminal(heap[1])

\* handler p of GET /swap/status takes a step after its first await
StatusStep(p) == procs[p].kind = "status" /\ procs'[p] # procs[p]

\* the swap cannot be marked sent by the note check of a status query
NeverSentByQuery(obj) == obj.notes_before = <<>>

\* C35: a step of a status query that makes no status transition leaves every
\* field of the swap's entry as it was; stated for the swaps whose snapshot is
\* empty, where the query's only write is the one after the block loop
C35_QueryWithoutTransitionChangesNothing ==
    [][\A p \in Handlers :
          (/\ StatusStep(p)
           /\ NeverSentByQuery(heap[procs[p].swap])
           /\ heap'[procs[p].swap].status = heap[procs[p].swap].status)
          => heap'[procs[p].swap] = heap[procs[p].swap]]_vars

\* C35, one request at a time: a step of a status query that leaves the status
\* leaves the entry
C35_SerialQueryKeepsEntry ==
    [][\A p \in Handlers :
          (StatusStep(p) /\ heap'[procs[p].swap].status = heap[procs[p].swap].status)
          => heap'[procs[p].swap] = heap[procs[p].swap]]_vars

\* C35: a status query changes no entry but the one of its swap, and never the
\* registry
C35_OtherSwapsUntouched ==
    [][\A p \in Handlers :
          StatusStep(p)
          => /\ swapTransactions' = swapTransactions
             /\ Len(heap') = Len(heap)
             /\ \A i \in 1..Len(heap) : i # procs[p].swap => heap'[i] = heap[i]]_vars

\* C35: a status query goes to a note or ledger query only for a swap that is
\* registered and not terminal
C35_TerminalSwapNotQueried ==
    [][\A p \in Handlers :
          (procs[p].kind = "none" /\ procs'[p].kind = "status")
          => /\ procs'[p].swap # 0
             /\ ~Terminal(heap[procs'[p].swap])
             /\ heap' = heap /\ swapTransactions' = swapTransactions]_vars

\* the step of handler p is the answer for a block in which the matching
\* transaction was found: the transaction and its block are written
FoundInBlock(p) ==
    /\ StatusStep(p) /\ procs[p].pc = "block"
    /\ \/ heap'[procs[p].swap].tx_id # heap[procs[p].swap].tx_id
       \/ heap'[procs[p].swap].confirmed_block_height
             # heap[procs[p].swap].confirmed_block_height

\* the step of handler p is the note check that sees the notes of the snapshot
\* gone
SeenSent(p) ==
    /\ StatusStep(p) /\ procs[p].pc = "notes"
    /\ heap[procs[p].swap].status = "pending"
    /\ heap'[procs[p].swap].status = "sent-pending"

\* C36: a status query that finds the matching transaction in one of its blocks
\* leaves the swap sent-confirmed, also at or past the timeout height; and the
\* query that sees the notes gone goes on to the height and block queries
\* itself
C36_ConfirmationBeforeTimeout ==
    [][\A p \in Handlers :
          /\ FoundInBlock(p)
                => /\ heap'[procs[p].swap].status = "sent-confirmed"
                   /\ heap'[procs[p].swap].error = heap[procs[p].swap].error
                   /\ procs'[p].kind = "none"
          /\ SeenSent(p)
                => procs'[p].kind = "status" /\ procs'[p].pc = "getHeight"]_vars

\* a swap whose spent notes a query saw is confirmed by a transaction of the
\* block at the timeout height
C36_Witness ==
    /\ heap[1].status = "sent-confirmed"
    /\ heap[1].change_utxo # <<>>
    /\ heap[1].confirmed_block_height
          >= heap[1].initial_block_height + ConfirmationTimeout

\* C37: a sent-confirmed swap has its confirmed_block_height set, at or after
\* its initial_block_height
C37_ConfirmedNotBeforeRegistered ==
    \A i \in 1..Len(heap) :
        heap[i].status = "sent-confirmed"
        => /\ heap[i].confirmed_block_height # -1
           /\ heap[i].confirmed_block_height >= heap[i].initial_block_height

\* C37, with getHeight answering the height of the chain: the block a swap is
\* confirmed in is the current one or the one before, neither before the
\* initial one
C37_ConfirmedInCheckedBlock ==
    \A i \in 1..Len(heap) :
        heap[i].status = "sent-confirmed"
        => /\ heap[i].confirmed_block_height >= heap[i].initial_block_height
           /\ heap[i].confirmed_block_height <= height

\* getNotesEqualTo returned a selection
Selected == SelectCall /\ ~call.selection.threw

\* the notes of whole that part leaves, each as often as it is left
LeftOver(part, whole) ==
    {whole[i] : i \in {j \in 1..Len(whole) :
                          Occurrences(whole[j], part) < Occurrences(whole[j], whole)}}

\* the notes are in the order of descending assets
Descending(notes) ==
    \A i, j \in 1..Len(notes) : i < j => notes[i].assets >= notes[j].assets

\* C38: the notes getNotesEqualTo returns are the first notes of the available
\* ones in the order of descending assets: no note left out holds more than a
\* selected one; and without the last selected note the total is below
\* amountNock * 65536 + 10
C38_LargestFirstMinimalPrefix ==
    Selected =>
        /\ SubMultiset(call.selection.selectedNotes, call.availableNotes)
        /\ Descending(call.selection.selectedNotes)
        /\ \A n \in LeftOver(call.selection.selectedNotes, call.availableNotes) :
              \A i \in 1..Len(call.selection.selectedNotes) :
                  n.assets <= call.selection.selectedNotes[i].assets
        /\ Len(call.selection.selectedNotes) >= 1
        /\ TotalOf(SubSeq(call.selection.selectedNotes, 1,
                          Len(call.selection.selectedNotes) - 1))
              < AmountAssets(call.amountNock) + 10

\* two notes of three are selected, the first note of the listing is the one
\* left out
C38_Witness ==
    /\ Selected
    /\ Len(call.availableNotes) = 3 /\ Len(call.selection.selectedNotes) = 2
    /\ call.availableNotes[1] \in
          LeftOver(call.selection.selectedNotes, call.availableNotes)
    /\ call.availableNotes[1].assets < call.selection.selectedNotes[2].assets

\* the swap is neither confirmed nor failed yet
InFlight(swap) == swap.status \in {"pending", "sent-pending"}

\* C39: getPendingSwaps and the listing of GET /swap/pending hold exactly the
\* registered swaps whose status is pending or sent-pending
C39_PendingSwapsAreThoseInFlight ==
    getPendingSwaps = {swap \in RegisteredSwaps : InFlight(swap)}

\* C39, what the listing does hold: the swaps with status pending, so no swap
\* in a terminal state
C39_PendingSwapsListed ==
    /\ getPendingSwaps = {swap \in RegisteredSwaps : swap.status = "pending"}
    /\ \A swap \in getPendingSwaps : ~Terminal(swap)

\* sanitizeForBash returned, and returned again on its own result
SanitizedTwice == call.fn = "sanitizeForBash" /\ call.stage = "again"

\* at most 100 characters, none of the stripped ones, no whitespace at the
\* start and no two whitespace characters in a row
CleanText(cs) ==
    /\ Len(cs) <= 100
    /\ \A i \in 1..Len(cs) : cs[i] \notin {";", "|", "&", "$", "`", "\\", "'", "\""}
    /\ Len(cs) > 0 => cs[1] \notin {" ", "\t", "\n"}
    /\ \A i \in 1..(Len(cs) - 1) :
          ~(cs[i] \in {" ", "\t", "\n"} /\ cs[i + 1] \in {" ", "\t", "\n"})

\* no whitespace at the end
EndsTrimmed(cs) == Len(cs) > 0 => cs[Len(cs)] \notin {" ", "\t", "\n"}

\* C40: sanitizeForBash(sanitizeForBash(s)) is sanitizeForBash(s), and the
\* result has at most 100 characters, no whitespace at either end, no two
\* whitespace characters in a row and none of the stripped characters
C40_SanitizeIdempotentAndTrimmed ==
    SanitizedTwice =>
        /\ call.again = call.sanitized
        /\ CleanText(call.sanitized)
        /\ EndsTrimmed(call.sanitized)

\* C40, what holds of every result: all but the whitespace at the end; and
\* the second result is trimmed and is kept by a third call
C40_SanitizedClean ==
    SanitizedTwice =>
        /\ CleanText(call.sanitized)
        /\ CleanText(call.again) /\ EndsTrimmed(call.again)
        /\ sanitizeForBash(call.again) = call.again

\* C40, the inputs of at most 100 characters: the claim holds
C40_ShortInputIdempotent ==
    (SanitizedTwice /\ Len(call.input) <= 100)
        => call.again = call.sanitized /\ EndsTrimmed(call.sanitized)

\* C9: isValidTimestamp(ts, w) is true exactly when now - w*60 <= ts <= now + w*60.
C9_InclusiveSymmetricWindow ==
    tsCall.done =>
        (tsCall.result <=>
            /\ tsCall.timestamp >= tsCall.at - (tsCall.windowMinutes * 60)
            /\ tsCall.timestamp <= tsCall.at + (tsCall.windowMinutes * 60))

\* a timestamp one second past the window in the future was rejected
C9_Witness ==
    /\ tsCall.done
    /\ tsCall.timestamp = tsCall.at + (tsCall.windowMinutes * 60) + 1
    /\ ~tsCall.result

\* C10: with the setting unset or the empty string every key is authorized;
\* with one or more keys listed, exactly the listed keys are.
C10_OpenWhenEmptyElseListed ==
    authCall.done =>
        IF ~authEnv.set \/ authEnv.chars = <<>>
        THEN authCall.result
        ELSE authCall.result <=>
                \E i \in 1..Len(SplitComma(authEnv.chars)) :
                    SplitComma(authEnv.chars)[i] = StringChars(authCall.publicKey)

\* C10, with the empty string taken as a list of one empty entry
C10_OpenWhenUnsetElseListed ==
    authCall.done =>
        IF ~authEnv.set
        THEN authCall.result
        ELSE authCall.result <=>
                \E i \in 1..Len(SplitComma(authEnv.chars)) :
                    SplitComma(authEnv.chars)[i] = StringChars(authCall.publicKey)

====
